---- MODULE Spec2Model ----
(***************************************************************************)
(* Verification model of copilot-plus-plus: the unified-diff parser        *)
(* (gitService.ts), the issue reconciler and the live-document locator     *)
(* (prReviewPanel.ts), the response normalizers (copilotService.ts,        *)
(* breakingChangeService.ts) and the review request life cycle.            *)
(*                                                                         *)
(* Text is modelled as the code sees it: a string is a sequence of         *)
(* one-character strings, a multi-line text is a sequence of lines; the    *)
(* text of a model response is a sequence of lexemes.                      *)
(***************************************************************************)
EXTENDS Integers, Sequences, FiniteSets, TLC

\* ------------------------------------------------------------------------
\* Strings
\* ------------------------------------------------------------------------

\* JavaScript null / undefined for a number-valued field.
NULL == -1

Digits == <<"0", "1", "2", "3", "4", "5", "6", "7", "8", "9">>

IsDigit(c) == \E i \in 1..10 : Digits[i] = c

DigitVal(c) == (CHOOSE i \in 1..10 : Digits[i] = c) - 1

\* Number.prototype.toString for a natural number.
RECURSIVE ToDigits(_)
ToDigits(n) ==
  IF n < 10 THEN <<Digits[n + 1]>>
  ELSE ToDigits(n \div 10) \o <<Digits[(n % 10) + 1]>>

\* parseInt(s, 10) for a string that starts with a digit: the value of the
\* leading run of digits.
RECURSIVE ParseIntAcc(_, _, _)
ParseIntAcc(s, i, acc) ==
  IF i > Len(s) \/ ~IsDigit(s[i]) THEN acc
  ELSE ParseIntAcc(s, i + 1, acc * 10 + DigitVal(s[i]))

parseInt(s) == ParseIntAcc(s, 1, 0)

\* String.prototype.startsWith
StartsWith(s, p) == Len(s) >= Len(p) /\ SubSeq(s, 1, Len(p)) = p

\* String.prototype.substring(from) with a 0-based index.
Substring(s, from) == SubSeq(s, from + 1, Len(s))

IsSpaceChar(c) == c \in {" ", "\t", "\r", "\n"}

\* !s.trim()
IsBlank(s) == \A i \in 1..Len(s) : IsSpaceChar(s[i])

\* lines.join('\n')
RECURSIVE JoinLines(_)
JoinLines(lines) ==
  IF lines = <<>> THEN <<>>
  ELSE IF Len(lines) = 1 THEN lines[1]
  ELSE lines[1] \o <<"\n">> \o JoinLines(Tail(lines))

\* text.split('\n')
RECURSIVE SplitNewline(_, _, _)
SplitNewline(s, i, cur) ==
  IF i > Len(s) THEN <<cur>>
  ELSE IF s[i] = "\n" THEN <<cur>> \o SplitNewline(s, i + 1, <<>>)
  ELSE SplitNewline(s, i + 1, Append(cur, s[i]))

SplitLines(s) == SplitNewline(s, 1, <<>>)

\* ------------------------------------------------------------------------
\* Diff parser (gitService.ts)
\* ------------------------------------------------------------------------

DIFF_GIT == <<"d", "i", "f", "f", " ", "-", "-", "g", "i", "t", " ">>
AT_AT == <<"@", "@">>

\* text.split(/^<token>/m) on a text given as its lines: a new piece starts at
\* every line that begins with the token, and holds the rest of that line and
\* the lines after it; the first piece is the text before the first such line.
RECURSIVE SplitAtLineStart(_, _, _, _)
SplitAtLineStart(lines, token, i, cur) ==
  IF i > Len(lines) THEN <<cur>>
  ELSE IF StartsWith(lines[i], token)
    THEN <<cur>> \o SplitAtLineStart(lines, token, i + 1,
                                     <<Substring(lines[i], Len(token))>>)
    ELSE SplitAtLineStart(lines, token, i + 1, Append(cur, lines[i]))

SplitPieces(lines, token) == SplitAtLineStart(lines, token, 1, <<>>)

\* !chunk.trim() for a piece of text given as its lines
IsBlankText(lines) == \A i \in 1..Len(lines) : IsBlank(lines[i])

\* /^diff --git a\/(.+) b\/(.+)$/ on one line: the greedy first group takes the
\* last " b/" that leaves both groups non-empty; the result is group 2.
FileNameCuts(line) ==
  LET p == Len(DIFF_GIT) + 2
  IN  { i \in (p + 2)..(Len(line) - 3) : SubSeq(line, i, i + 2) = <<" ", "b", "/">> }

FileNameMatches(line) ==
  /\ StartsWith(line, DIFF_GIT \o <<"a", "/">>)
  /\ FileNameCuts(line) # {}

FileNameGroup2(line) ==
  LET cut == CHOOSE i \in FileNameCuts(line) : \A j \in FileNameCuts(line) : j <= i
  IN  SubSeq(line, cut + 3, Len(line))

\* fileChunk.match(/^diff --git a\/(.+) b\/(.+)$/m): the first line that matches
FileNameMatchLine(fileChunk) ==
  LET hits == { i \in 1..Len(fileChunk) : FileNameMatches(fileChunk[i]) }
  IN  IF hits = {} THEN 0 ELSE CHOOSE i \in hits : \A j \in hits : i <= j

\* \d+ from position i: the index after the run of digits (i when there is none)
RECURSIVE DigitsEnd(_, _)
DigitsEnd(s, i) ==
  IF i <= Len(s) /\ IsDigit(s[i]) THEN DigitsEnd(s, i + 1) ELSE i

\* The characters of the class [ -+] (space to plus) that occur in the texts.
SpaceToPlus == {" ", "!", "#", "$", "%", "&", "(", ")", "*", "+"}

CharAt(s, i) == IF i >= 1 /\ i <= Len(s) THEN s[i] ELSE "<eof>"

\* hunkContent.match(/^[ -+](-\d+,\d+ \+\d+,\d+) @@/), on the first line of the
\* hunk (the pattern holds no line break): the matched group, or <<>>.
HunkHeaderGroup(h) ==
  LET a == DigitsEnd(h, 3)
      b == DigitsEnd(h, a + 1)
      c == DigitsEnd(h, b + 2)
      d == DigitsEnd(h, c + 1)
  IN  IF /\ CharAt(h, 1) \in SpaceToPlus
         /\ CharAt(h, 2) = "-"
         /\ a > 3
         /\ CharAt(h, a) = ","
         /\ b > a + 1
         /\ CharAt(h, b) = " "
         /\ CharAt(h, b + 1) = "+"
         /\ c > b + 2
         /\ CharAt(h, c) = ","
         /\ d > c + 1
         /\ CharAt(h, d) = " "
         /\ CharAt(h, d + 1) = "@"
         /\ CharAt(h, d + 2) = "@"
      THEN SubSeq(h, 2, d - 1)
      ELSE <<>>

\* hunkHeader.split(' ') of the matched group: [oldRange, newRange]
HeaderOldRange(g) ==
  LET sp == CHOOSE i \in 1..Len(g) : g[i] = " "
  IN  SubSeq(g, 1, sp - 1)

HeaderNewRange(g) ==
  LET sp == CHOOSE i \in 1..Len(g) : g[i] = " "
  IN  SubSeq(g, sp + 1, Len(g))

\* parseInt(range.substring(1).split(',')[0], 10)
RangeStart(range) == parseInt(Substring(range, 1))

\* The loop over hunkLines (gitService.ts 75-109): a blank line is skipped, '+'
\* '-' and ' ' push a line and advance their counters, any other first
\* character falls through the switch and pushes nothing.
\* The walk with a blank raw line counted as an unrecorded context line
RECURSIVE WalkCountingBlank(_, _, _, _, _)
WalkCountingBlank(hunkLines, i, oldLineNum, newLineNum, acc) ==
  IF i > Len(hunkLines) THEN acc
  ELSE
    LET line == hunkLines[i]
    IN  IF line = <<>>
          THEN WalkCountingBlank(hunkLines, i + 1, oldLineNum + 1, newLineNum + 1, acc)
        ELSE IF line[1] = "+"
          THEN WalkCountingBlank(hunkLines, i + 1, oldLineNum, newLineNum + 1,
                 Append(acc, [type |-> "added", oldLineNum |-> NULL,
                              newLineNum |-> newLineNum, content |-> Substring(line, 1)]))
        ELSE IF line[1] = "-"
          THEN WalkCountingBlank(hunkLines, i + 1, oldLineNum + 1, newLineNum,
                 Append(acc, [type |-> "removed", oldLineNum |-> oldLineNum,
                              newLineNum |-> NULL, content |-> Substring(line, 1)]))
        ELSE IF line[1] = " "
          THEN WalkCountingBlank(hunkLines, i + 1, oldLineNum + 1, newLineNum + 1,
                 Append(acc, [type |-> "context", oldLineNum |-> oldLineNum,
                              newLineNum |-> newLineNum, content |-> Substring(line, 1)]))
        ELSE WalkCountingBlank(hunkLines, i + 1, oldLineNum, newLineNum, acc)

\* The walk with a default case: any other first character is a context line
RECURSIVE WalkOtherAsContext(_, _, _, _, _)
WalkOtherAsContext(hunkLines, i, oldLineNum, newLineNum, acc) ==
  IF i > Len(hunkLines) THEN acc
  ELSE
    LET line == hunkLines[i]
    IN  IF line = <<>>
          THEN WalkOtherAsContext(hunkLines, i + 1, oldLineNum, newLineNum, acc)
        ELSE IF line[1] = "+"
          THEN WalkOtherAsContext(hunkLines, i + 1, oldLineNum, newLineNum + 1,
                 Append(acc, [type |-> "added", oldLineNum |-> NULL,
                              newLineNum |-> newLineNum, content |-> Substring(line, 1)]))
        ELSE IF line[1] = "-"
          THEN WalkOtherAsContext(hunkLines, i + 1, oldLineNum + 1, newLineNum,
                 Append(acc, [type |-> "removed", oldLineNum |-> oldLineNum,
                              newLineNum |-> NULL, content |-> Substring(line, 1)]))
        ELSE WalkOtherAsContext(hunkLines, i + 1, oldLineNum + 1, newLineNum + 1,
               Append(acc, [type |-> "context", oldLineNum |-> oldLineNum,
                            newLineNum |-> newLineNum, content |-> Substring(line, 1)]))

RECURSIVE WalkHunkLines(_, _, _, _, _)
WalkHunkLines(hunkLines, i, oldLineNum, newLineNum, acc) ==
  IF i > Len(hunkLines) THEN acc
  ELSE
    LET line == hunkLines[i]
    IN  IF line = <<>> THEN WalkHunkLines(hunkLines, i + 1, oldLineNum, newLineNum, acc)
        ELSE
          LET type == line[1]
              content == Substring(line, 1)
          IN  IF type = "+"
                THEN WalkHunkLines(hunkLines, i + 1, oldLineNum, newLineNum + 1,
                       Append(acc, [type |-> "added", oldLineNum |-> NULL,
                                    newLineNum |-> newLineNum, content |-> content]))
              ELSE IF type = "-"
                THEN WalkHunkLines(hunkLines, i + 1, oldLineNum + 1, newLineNum,
                       Append(acc, [type |-> "removed", oldLineNum |-> oldLineNum,
                                    newLineNum |-> NULL, content |-> content]))
              ELSE IF type = " "
                THEN WalkHunkLines(hunkLines, i + 1, oldLineNum + 1, newLineNum + 1,
                       Append(acc, [type |-> "context", oldLineNum |-> oldLineNum,
                                    newLineNum |-> newLineNum, content |-> content]))
              ELSE WalkHunkLines(hunkLines, i + 1, oldLineNum, newLineNum, acc)

\* Number of context lines collected around a change (gitService.ts 116-117).
ContextCount == 3

Max(a, b) == IF a >= b THEN a ELSE b
Min(a, b) == IF a <= b THEN a ELSE b

\* Contents of the context lines among lines[from..to], in order.
RECURSIVE ContextContents(_, _, _)
ContextContents(lines, from, to) ==
  IF from > to THEN <<>>
  ELSE (IF lines[from].type = "context" THEN <<lines[from].content>> ELSE <<>>)
       \o ContextContents(lines, from + 1, to)

\* Every context line of the hunk, wherever the changes are
ExtractAllContext(lines, position, count) == ContextContents(lines, 1, Len(lines))

\* extractLinesAround(hunk, position, count), with 1-based indices
extractLinesAround(lines, position, count) ==
  LET changes == { i \in 1..Len(lines) : lines[i].type # "context" }
  IN  IF changes = {} THEN <<>>
      ELSE IF position = "before"
        THEN LET first == CHOOSE i \in changes : \A j \in changes : i <= j
             IN  ContextContents(lines, Max(1, first - count), first - 1)
        ELSE LET last == CHOOSE i \in changes : \A j \in changes : j <= i
             IN  ContextContents(lines, last + 1, Min(Len(lines), last + count))

\* One hunk piece of a file chunk (gitService.ts 50-119): no entry when the
\* header does not match or when the hunk has no line.
ParseHunk(filePath, hunkContent) ==
  LET g == IF hunkContent = <<>> THEN <<>> ELSE HunkHeaderGroup(hunkContent[1])
  IN  IF g = <<>> THEN <<>>
      ELSE
        LET oldStart == RangeStart(HeaderOldRange(g))
            newStart == RangeStart(HeaderNewRange(g))
            hunkLines == Tail(hunkContent)
            lines == WalkHunkLines(hunkLines, 1, oldStart, newStart, <<>>)
        IN  IF Len(lines) > 0
              THEN << [filePath |-> filePath,
                       hunk |-> [oldStart |-> oldStart, newStart |-> newStart,
                                 lines |-> lines],
                       contextBefore |-> extractLinesAround(lines, "before", ContextCount),
                       contextAfter |-> extractLinesAround(lines, "after", ContextCount)] >>
              ELSE <<>>

\* A `break` in place of the `continue` of line 53: the hunks after a header
\* that does not match are lost.
RECURSIVE ParseHunksBreak(_, _, _)
ParseHunksBreak(filePath, hunks, i) ==
  IF i > Len(hunks) THEN <<>>
  ELSE IF hunks[i] = <<>> \/ HunkHeaderGroup(hunks[i][1]) = <<>> THEN <<>>
  ELSE ParseHunk(filePath, hunks[i]) \o ParseHunksBreak(filePath, hunks, i + 1)

RECURSIVE ParseHunks(_, _, _)
ParseHunks(filePath, hunks, i) ==
  IF i > Len(hunks) THEN <<>>
  ELSE ParseHunk(filePath, hunks[i]) \o ParseHunks(filePath, hunks, i + 1)

\* One chunk of the split on "diff --git " (gitService.ts 30-120)
ParseFileChunk(chunk) ==
  IF IsBlankText(chunk) THEN <<>>
  ELSE
    LET fileChunk == IF chunk = <<>> THEN <<DIFF_GIT>>
                     ELSE <<DIFF_GIT \o chunk[1]>> \o Tail(chunk)
        m == FileNameMatchLine(fileChunk)
    IN  IF m = 0 THEN <<>>
        ELSE ParseHunks(FileNameGroup2(fileChunk[m]),
                        Tail(SplitPieces(fileChunk, AT_AT)), 1)

RECURSIVE ParseFileChunks(_, _)
ParseFileChunks(fileChunks, i) ==
  IF i > Len(fileChunks) THEN <<>>
  ELSE ParseFileChunk(fileChunks[i]) \o ParseFileChunks(fileChunks, i + 1)

\* parseGitDiffWithLineDetails(diff), the diff given as its lines
parseGitDiffWithLineDetails(diff) ==
  ParseFileChunks(SplitPieces(diff, DIFF_GIT), 1)

\* ------------------------------------------------------------------------
\* Issue reconciler (prReviewPanel.ts)
\* ------------------------------------------------------------------------

\* A presence test that takes 0 for a value: n !== undefined && n !== null.
TruthyNotNull(n) == n # NULL

\* JavaScript truthiness of a number-valued field: null, undefined and 0 are falsy.
Truthy(n) == n # NULL /\ n # 0

Abs(n) == IF n < 0 THEN -n ELSE n

\* Lines kept before the matched line of a snippet, and one more than the lines
\* kept after it (prReviewPanel.ts 213-214).
SnippetBefore == 3
SnippetAfter == 4

\* bestMatch = null
NoMatch ==
  [found |-> FALSE, contextBefore |-> <<>>, contextAfter |-> <<>>, exactMatch |-> FALSE,
   newLineNumber |-> NULL, oldLineNumber |-> NULL, relevantLines |-> <<>>, distance |-> NULL]

\* The whole hunk taken as the snippet, whatever the matched line
RelevantLinesWhole(lines, i) == lines

\* hunk.lines.slice(Math.max(0, lineIndex - 3), Math.min(hunk.lines.length, lineIndex + 4)),
\* lineIndex being 0-based and i = lineIndex + 1
RelevantLines(lines, i) ==
  SubSeq(lines, Max(0, (i - 1) - SnippetBefore) + 1, Min(Len(lines), (i - 1) + SnippetAfter))

\* A comparison turned round: a farther line replaces the best match.
IsCloserFarther(distance, best) == (~best.found) \/ distance > best.distance

\* distance <= smallestDistance: a later line at the same distance wins
IsCloserOrEqual(distance, best) == (~best.found) \/ distance <= best.distance

\* distance < smallestDistance, smallestDistance being Infinity at first
IsCloser(distance, best) == (~best.found) \/ distance < best.distance

\* An off-by-one tolerance: a neighbouring line counts as exact.
IsExactWithin1(distance) == distance <= 1

\* distance === 0
IsExact(distance) == distance = 0

\* The inner loop of findClosestMatchingContext over the lines of one hunk,
\* from line i on: it stops at an exact match.
RECURSIVE ScanHunkLines(_, _, _, _)
ScanHunkLines(fileMatch, i, issue, best) ==
  LET lines == fileMatch.hunk.lines
  IN  IF i > Len(lines) THEN best
      ELSE IF ~Truthy(lines[i].newLineNum) THEN ScanHunkLines(fileMatch, i + 1, issue, best)
      ELSE
        LET distance == Abs(lines[i].newLineNum - issue.lineNumber)
        IN  IF IsCloser(distance, best)
              THEN LET m == [found |-> TRUE,
                             contextBefore |-> fileMatch.contextBefore,
                             contextAfter |-> fileMatch.contextAfter,
                             exactMatch |-> IsExact(distance),
                             newLineNumber |-> lines[i].newLineNum,
                             oldLineNumber |-> lines[i].oldLineNum,
                             relevantLines |-> RelevantLines(lines, i),
                             distance |-> distance]
                   IN  IF distance = 0 THEN m
                       ELSE ScanHunkLines(fileMatch, i + 1, issue, m)
              ELSE ScanHunkLines(fileMatch, i + 1, issue, best)

\* The outer loop over the entries of the file: it stops after an exact match.
RECURSIVE ScanFileMatches(_, _, _, _)
ScanFileMatches(fileMatches, k, issue, best) ==
  IF k > Len(fileMatches) THEN best
  ELSE LET b == ScanHunkLines(fileMatches[k], 1, issue, best)
       IN  IF b.found /\ b.exactMatch THEN b
           ELSE ScanFileMatches(fileMatches, k + 1, issue, b)

findClosestMatchingContext(fileMatches, issue) ==
  IF ~Truthy(issue.lineNumber) THEN NoMatch
  ELSE ScanFileMatches(fileMatches, 1, issue, NoMatch)

\* The marker formatCodeSnippet puts before a line
SnippetPrefix(type) ==
  IF type = "added" THEN <<"+", " ">>
  ELSE IF type = "removed" THEN <<"-", " ">>
  ELSE <<" ", " ">>

RECURSIVE SnippetLines(_)
SnippetLines(relevantLines) ==
  IF relevantLines = <<>> THEN <<>>
  ELSE <<SnippetPrefix(relevantLines[1].type) \o relevantLines[1].content>>
       \o SnippetLines(Tail(relevantLines))

\* formatCodeSnippet(match): the snippet text
formatCodeSnippet(match) ==
  IF (~match.found) \/ match.relevantLines = <<>> THEN <<>>
  ELSE JoinLines(SnippetLines(match.relevantLines))

\* detailedDiff.filter((d) => d.filePath === issue.filePath)
RECURSIVE FilterByPath(_, _)
FilterByPath(detailedDiff, filePath) ==
  IF detailedDiff = <<>> THEN <<>>
  ELSE (IF detailedDiff[1].filePath = filePath THEN <<detailedDiff[1]>> ELSE <<>>)
       \o FilterByPath(Tail(detailedDiff), filePath)

\* An issue without lineContext
NoContext ==
  [present |-> FALSE, linesBefore |-> <<>>, linesAfter |-> <<>>, exactMatch |-> FALSE,
   newLineNumber |-> NULL, codeSnippet |-> <<>>]

\* An issue as the model reports it
Issue(path, n) == [filePath |-> path, lineNumber |-> n, lineContext |-> NoContext]

\* The body of the forEach in enhanceReviewResults, for one issue
EnhanceIssue(issue, detailedDiff) ==
  IF issue.filePath = <<>> THEN issue
  ELSE
    LET fileMatches == FilterByPath(detailedDiff, issue.filePath)
    IN  IF fileMatches = <<>> THEN issue
        ELSE
          LET closestMatch == findClosestMatchingContext(fileMatches, issue)
          IN  IF closestMatch.found
                THEN [issue EXCEPT !.lineContext =
                        [present |-> TRUE,
                         linesBefore |-> closestMatch.contextBefore,
                         linesAfter |-> closestMatch.contextAfter,
                         exactMatch |-> closestMatch.exactMatch,
                         newLineNumber |-> closestMatch.newLineNumber,
                         codeSnippet |-> formatCodeSnippet(closestMatch)]]
                ELSE issue

\* enhanceReviewResults(result, detailedDiff): the enhanced clone of the result
enhanceReviewResults(result, detailedDiff) ==
  [result EXCEPT !.issues =
     [k \in 1..Len(result.issues) |-> EnhanceIssue(result.issues[k], detailedDiff)]]

\* ------------------------------------------------------------------------
\* Live-document locator (prReviewPanel.ts, navigateToFile)
\* ------------------------------------------------------------------------

\* No line filtered out: added and removed lines stay among the anchors
KeepChanged(lines) == lines

\* .filter((line) => !line.startsWith('+ ') && !line.startsWith('- '))
RECURSIVE DropChanged(_)
DropChanged(lines) ==
  IF lines = <<>> THEN <<>>
  ELSE (IF StartsWith(lines[1], <<"+", " ">>) \/ StartsWith(lines[1], <<"-", " ">>)
          THEN <<>> ELSE <<lines[1]>>)
       \o DropChanged(Tail(lines))

\* .map((line) => (line.startsWith('  ') ? line.substring(2) : line))
StripMarker(lines) ==
  [i \in 1..Len(lines) |->
     IF StartsWith(lines[i], <<" ", " ">>) THEN Substring(lines[i], 2) ELSE lines[i]]

\* .filter((line) => line.trim())
RECURSIVE DropBlank(_)
DropBlank(lines) ==
  IF lines = <<>> THEN <<>>
  ELSE (IF IsBlank(lines[1]) THEN <<>> ELSE <<lines[1]>>) \o DropBlank(Tail(lines))

\* contextLines of navigateToFile (lines 276-280)
ContextLines(codeContext) == DropBlank(StripMarker(DropChanged(SplitLines(codeContext))))

\* Anchors joined into the search pattern, and the fewest anchors a search needs
PatternLines == 3
MinAnchors == 2

\* contextLines.slice(0, 3).join('\n')
SearchPattern(contextLines) ==
  JoinLines(SubSeq(contextLines, 1, Min(PatternLines, Len(contextLines))))

\* text.indexOf(pattern), from position i on (0-based result, -1 when absent)
RECURSIVE IndexOfFrom(_, _, _)
IndexOfFrom(text, pattern, i) ==
  IF i + Len(pattern) - 1 > Len(text) THEN -1
  ELSE IF SubSeq(text, i, i + Len(pattern) - 1) = pattern THEN i - 1
  ELSE IndexOfFrom(text, pattern, i + 1)

\* text.lastIndexOf(pattern): the search taken from the wrong end
LastIndexOf(text, pattern) ==
  LET hits == { i \in 1..(Len(text) - Len(pattern) + 1) :
                 SubSeq(text, i, i + Len(pattern) - 1) = pattern }
  IN  IF hits = {} THEN -1 ELSE (CHOOSE i \in hits : \A j \in hits : j <= i) - 1

IndexOf(text, pattern) == IndexOfFrom(text, pattern, 1)

\* text.substring(0, searchIndex).split('\n').length - 1
LinesBefore(text, searchIndex) == Len(SplitLines(SubSeq(text, 1, searchIndex))) - 1

\* The last line of a document (TextDocument.lineCount - 1)
LastLine(text) == Len(SplitLines(text)) - 1

NavError == [kind |-> "error", line |-> 0, character |-> 0]
NavNone == [kind |-> "none", line |-> 0, character |-> 0]

\* new vscode.Position(line, 0) followed by editor.selection = ...: the
\* constructor throws on a negative line, the editor keeps a position within
\* its document.
SetPosition(text, line) ==
  IF line < 0 THEN NavError
  ELSE [kind |-> "position", line |-> Min(line, LastLine(text)), character |-> 0]

\* No text.indexOf call made
NoSearch == [attempted |-> FALSE, pattern |-> <<>>]

\* A search attempted whatever the number of anchors
AnyAnchors(contextLines) == TRUE

\* contextLines.length >= 2 (line 283)
EnoughAnchors(contextLines) == Len(contextLines) >= MinAnchors

\* Lines 274-285: whether text.indexOf is called, and with which pattern
ContentSearch(codeContext) ==
  IF /\ codeContext.defined
     /\ ~IsBlank(codeContext.text)
     /\ EnoughAnchors(ContextLines(codeContext.text))
    THEN [attempted |-> TRUE, pattern |-> SearchPattern(ContextLines(codeContext.text))]
    ELSE NoSearch

\* navigateToFile(filePath, lineNumber, codeContext) on a file that opens (or
\* not) with the given text: the position the editor is given, "none" when no
\* position is set, "error" when the call throws.
navigateToFile(canOpen, text, lineNumber, codeContext) ==
  IF ~canOpen THEN NavError
  ELSE
    LET contentSearch == ContentSearch(codeContext)
        searchIndex == IndexOf(text, contentSearch.pattern)
    IN  IF /\ contentSearch.attempted
           /\ searchIndex # -1
          THEN SetPosition(text, LinesBefore(text, searchIndex))
        ELSE IF lineNumber >= 0 THEN SetPosition(text, lineNumber - 1)
        ELSE NavNone

\* ------------------------------------------------------------------------
\* Model responses and JSON (copilotService.ts, breakingChangeService.ts)
\*
\* A response text is a sequence of lexemes: the braces, the newline, the
\* code-fence markers, a word of prose, a markdown heading marker, the JSON
\* literal null, and JSON members written whole ('"title":"T"').  The member
\* separators are part of the member lexemes.
\* ------------------------------------------------------------------------

LBRACE == "{"
RBRACE == "}"
NL == "\n"
\* The fence markers: three backquotes followed by "json", three backquotes
FENCE_JSON == "[fence json]"
FENCE == "[fence]"
PROSE == "x"
HASH == "#"
NULL_LIT == "null"
SUMMARY_KEY == "summary:"

\* JSON values
JStr(text) == [type |-> "string", text |-> text]
JArr(items) == [type |-> "array", items |-> items]
JNum == [type |-> "number"]
JNull == [type |-> "null"]
JUndefined == [type |-> "undefined"]
JObj(fields) == [type |-> "object", fields |-> fields]

NoFields == [k \in {} |-> JUndefined]

\* The issue of a well-formed review response
ReportedIssue == Issue(<<"x">>, 10)

\* Members with a scalar or an array value
FieldTokens ==
  {"title", "description", "assessment", "issues", "issuesText",
   "strengthsText", "breakingChanges", "breakingChangesText", "note"}

FieldKey(tok) ==
  CASE tok = "issuesText" -> "issues"
    [] tok = "strengthsText" -> "strengths"
    [] tok = "breakingChangesText" -> "breakingChanges"
    [] OTHER -> tok

FieldValue(tok) ==
  CASE tok = "title" -> JStr(<<"T">>)
    [] tok = "description" -> JStr(<<"D">>)
    [] tok = "assessment" -> JStr(<<"A">>)
    [] tok = "issuesText" -> JStr(<<"none">>)
    [] tok = "strengthsText" -> JStr(<<"good">>)
    [] tok = "breakingChangesText" -> JStr(<<"none">>)
    [] tok = "note" -> JNum
    [] tok = "issues" -> JArr(<<ReportedIssue>>)
    [] OTHER -> JArr(<<>>)

\* obj[key] = v
SetField(fields, key, v) ==
  [k \in (DOMAIN fields) \cup {key} |-> IF k = key THEN v ELSE fields[k]]

\* v.key on a value that is neither null nor undefined
GetField(v, key) ==
  IF v.type = "object" /\ key \in DOMAIN v.fields THEN v.fields[key]
  ELSE JUndefined

\* v?.key
GetOptional(v, key) ==
  IF v.type \in {"null", "undefined"} THEN JUndefined ELSE GetField(v, key)

\* The truth value JavaScript gives a value
JsTruthy(v) ==
  CASE v.type = "string" -> v.text # <<>>
    [] v.type \in {"null", "undefined"} -> FALSE
    [] OTHER -> TRUE

IsArray(v) == v.type = "array"

ParseFail == [ok |-> FALSE, next |-> 0, value |-> JUndefined]

\* An object from the "{" at position i: the value and the position after it
RECURSIVE ParseObject(_, _)
RECURSIVE ParseMembers(_, _, _)
ParseObject(toks, i) ==
  IF i > Len(toks) \/ toks[i] # LBRACE THEN ParseFail
  ELSE ParseMembers(toks, i + 1, NoFields)

ParseMembers(toks, i, fields) ==
  IF i > Len(toks) THEN ParseFail
  ELSE IF toks[i] = RBRACE THEN [ok |-> TRUE, next |-> i + 1, value |-> JObj(fields)]
  ELSE IF toks[i] \in FieldTokens
    THEN ParseMembers(toks, i + 1, SetField(fields, FieldKey(toks[i]), FieldValue(toks[i])))
  ELSE IF toks[i] = SUMMARY_KEY
    THEN LET inner == ParseObject(toks, i + 1)
         IN  IF inner.ok
               THEN ParseMembers(toks, inner.next, SetField(fields, "summary", inner.value))
               ELSE ParseFail
  ELSE ParseFail

\* White space between the lexemes of a JSON text
RECURSIVE DropNewlines(_)
DropNewlines(toks) ==
  IF toks = <<>> THEN <<>>
  ELSE (IF toks[1] = NL THEN <<>> ELSE <<toks[1]>>) \o DropNewlines(Tail(toks))

\* JSON.parse(text): ok is FALSE where it throws a SyntaxError
JsonParse(text) ==
  LET toks == DropNewlines(text)
  IN  IF toks = <<NULL_LIT>> THEN [ok |-> TRUE, next |-> 2, value |-> JNull]
      ELSE LET r == ParseObject(toks, 1)
           IN  IF r.ok /\ r.next = Len(toks) + 1 THEN r ELSE ParseFail

\* String.prototype.trim
RECURSIVE TrimStart(_)
TrimStart(s) == IF s # <<>> /\ IsSpaceChar(s[1]) THEN TrimStart(Tail(s)) ELSE s

RECURSIVE TrimEnd(_)
TrimEnd(s) ==
  IF s # <<>> /\ IsSpaceChar(s[Len(s)]) THEN TrimEnd(SubSeq(s, 1, Len(s) - 1)) ELSE s

Trim(s) == TrimEnd(TrimStart(s))

\* The position of the first `tok` at or after position i, 0 when there is none
RECURSIVE FindToken(_, _, _)
FindToken(toks, tok, i) ==
  IF i > Len(toks) THEN 0
  ELSE IF toks[i] = tok THEN i
  ELSE FindToken(toks, tok, i + 1)

\* The position of the last `tok`, 0 when there is none
FindLastToken(toks, tok) ==
  LET hits == { i \in 1..Len(toks) : toks[i] = tok }
  IN  IF hits = {} THEN 0 ELSE CHOOSE i \in hits : \A j \in hits : j <= i

\* text.match(/\{[\s\S]*?\}/g): from each "{" to the next "}", left to right
RECURSIVE LazyBraceMatches(_, _)
LazyBraceMatches(toks, i) ==
  LET open == FindToken(toks, LBRACE, i)
      close == IF open = 0 THEN 0 ELSE FindToken(toks, RBRACE, open + 1)
  IN  IF close = 0 THEN <<>>
      ELSE <<SubSeq(toks, open, close)>> \o LazyBraceMatches(toks, close + 1)

\* text.match(/\{[\s\S]*\}/): from the first "{" to the last "}" after it
GreedyBraceMatch(toks) ==
  LET open == FindToken(toks, LBRACE, 1)
      close == FindLastToken(toks, RBRACE)
  IN  IF open = 0 \/ close < open THEN [found |-> FALSE, text |-> <<>>]
      ELSE [found |-> TRUE, text |-> SubSeq(toks, open, close)]

\* text.match(/```json\n([\s\S]*?)\n```/): the first opening fence that has a
\* closing one, and the shortest text between them
IsFenceClose(toks, j) ==
  j + 1 <= Len(toks) /\ toks[j] = NL /\ toks[j + 1] \in {FENCE, FENCE_JSON}

FencedMatch(toks) ==
  LET opens == { i \in 1..Len(toks) :
                   /\ toks[i] = FENCE_JSON
                   /\ i + 1 <= Len(toks) /\ toks[i + 1] = NL
                   /\ \E j \in (i + 2)..Len(toks) : IsFenceClose(toks, j) }
  IN  IF opens = {} THEN [found |-> FALSE, text |-> <<>>]
      ELSE LET i == CHOOSE o \in opens : \A p \in opens : o <= p
               j == CHOOSE c \in (i + 2)..Len(toks) :
                      /\ IsFenceClose(toks, c)
                      /\ \A d \in (i + 2)..(c - 1) : ~IsFenceClose(toks, d)
           IN  [found |-> TRUE, text |-> SubSeq(toks, i + 2, j - 1)]

Returned(v) == [kind |-> "return", value |-> v]
Thrown == [kind |-> "throw", value |-> JUndefined]

\* ------------------------------------------------------------------------
\* PR description: generatePrDescription, lines 741-855
\* ------------------------------------------------------------------------

NotAccepted == [found |-> FALSE, value |-> JUndefined]

\* Lines 750-758 and 768-776: the parsed value is taken when title and
\* description are truthy; reading a field of null and trimming a value that
\* is not a string throw, and the surrounding catch drops the candidate.
AcceptTitleDescription(parsed) ==
  IF ~parsed.ok \/ parsed.value.type = "null" THEN NotAccepted
  ELSE LET title == GetField(parsed.value, "title")
           description == GetField(parsed.value, "description")
       IN  IF /\ JsTruthy(title) /\ JsTruthy(description)
              /\ title.type = "string" /\ description.type = "string"
             THEN [found |-> TRUE,
                   value |-> JObj([k \in {"title", "description"} |->
                                     IF k = "title" THEN JStr(Trim(title.text))
                                     ELSE JStr(Trim(description.text))])]
             ELSE NotAccepted

\* for (const potentialJson of jsonMatch): the first candidate taken
RECURSIVE FirstAccepted(_, _)
FirstAccepted(candidates, i) ==
  IF i > Len(candidates) THEN NotAccepted
  ELSE LET a == AcceptTitleDescription(JsonParse(candidates[i]))
       IN  IF a.found THEN a ELSE FirstAccepted(candidates, i + 1)

\* A line whose text starts with a double quote: it starts with a member
StartsWithQuote(line) == line # <<>> /\ line[1] \in FieldTokens \cup {SUMMARY_KEY}

\* A member whose text ends with a double quote
EndsWithQuote(tok) ==
  tok \in {"title", "description", "assessment", "issuesText", "strengthsText",
           "breakingChangesText"}

\* One character removed from the end of the text before it
CUT == "[cut]"

\* .replace(/["',]$/, ''): a trailing quote is removed
DropTrailingQuote(line) ==
  IF line # <<>> /\ EndsWithQuote(line[Len(line)]) THEN Append(line, CUT) ELSE line

\* Lines 799-802: the heading marker, a leading '"title":"' and a trailing
\* quote are removed
CleanTitle(line) ==
  LET noHash == IF line # <<>> /\ line[1] = HASH THEN Tail(line) ELSE line
  IN  IF noHash # <<>> /\ noHash[1] = "title"
        THEN IF Len(noHash) = 1 THEN <<"T">>
             ELSE <<"T", "\"">> \o DropTrailingQuote(Tail(noHash))
        ELSE DropTrailingQuote(noHash)

\* trimmedLine.includes('description')
IncludesDescription(line) == \E i \in 1..Len(line) : line[i] = "description"

\* Lines 788-824, one line of the loop
HeuristicStep(st, line) ==
  LET trimmedLine == Trim(line)
  IN  IF trimmedLine = <<>> \/ trimmedLine = <<LBRACE>> \/ trimmedLine = <<RBRACE>> THEN st
      ELSE IF st.title = <<>> /\ ~StartsWithQuote(trimmedLine)
        THEN [st EXCEPT !.title = CleanTitle(trimmedLine)]
      ELSE LET started ==
                 \/ st.descriptionStarted
                 \/ /\ st.title # <<>>
                    /\ (IncludesDescription(trimmedLine) \/ trimmedLine[1] = HASH)
           IN  [title |-> st.title,
                descriptionStarted |-> started,
                description |->
                  IF started /\ ~StartsWithQuote(trimmedLine)
                    THEN st.description \o line \o <<NL>>
                    ELSE st.description]

RECURSIVE HeuristicLoop(_, _, _)
HeuristicLoop(lines, i, st) ==
  IF i > Len(lines) THEN st
  ELSE HeuristicLoop(lines, i + 1, HeuristicStep(st, lines[i]))

\* Lines 828-834: the first line that is not blank and starts with neither a
\* brace nor a quote
RECURSIVE SimpleTitle(_, _)
SimpleTitle(lines, i) ==
  IF i > Len(lines) THEN <<>>
  ELSE LET trimmedLine == Trim(lines[i])
       IN  IF /\ trimmedLine # <<>>
              /\ trimmedLine[1] # LBRACE
              /\ ~StartsWithQuote(trimmedLine)
             THEN trimmedLine
             ELSE SimpleTitle(lines, i + 1)

\* text.replace(sub, ''): the first occurrence removed
ReplaceFirst(text, sub) ==
  LET at == IndexOf(text, sub)
  IN  IF sub = <<>> \/ at = -1 THEN text
      ELSE SubSeq(text, 1, at) \o SubSeq(text, at + Len(sub) + 1, Len(text))

PR_TITLE == <<"PR Title">>

\* Lines 783-846
HeuristicTitleDescription(responseContent) ==
  LET lines == SplitLines(responseContent)
      st == HeuristicLoop(lines, 1,
              [title |-> <<>>, description |-> <<>>, descriptionStarted |-> FALSE])
      title == IF st.title # <<>> THEN st.title ELSE SimpleTitle(lines, 1)
      description ==
        IF st.title # <<>> THEN st.description
        ELSE Trim(ReplaceFirst(responseContent, title))
  IN  JObj([k \in {"title", "description"} |->
              IF k = "title" THEN JStr(IF title # <<>> THEN title ELSE PR_TITLE)
              ELSE JStr(IF description # <<>> THEN description ELSE responseContent)])

\* What generatePrDescription makes of the collected response text
NormalizePrDescriptionText(responseContent) ==
  LET candidate == FirstAccepted(LazyBraceMatches(responseContent, 1), 1)
      whole == AcceptTitleDescription(JsonParse(responseContent))
  IN  IF candidate.found THEN Returned(candidate.value)
      ELSE IF whole.found THEN Returned(whole.value)
      ELSE Returned(HeuristicTitleDescription(responseContent))

\* ------------------------------------------------------------------------
\* PR review: reviewPrChanges, lines 977-995, and extendedPrReviewResponse
\* ------------------------------------------------------------------------

PARSE_ERROR_ASSESSMENT == <<"Error while parsing review results. See raw response below.">>

ParserErrorIssue ==
  [filePath |-> <<>>, lineNumber |-> NULL, lineContext |-> NoContext,
   category |-> "Parser Error"]

fallbackResult ==
  JObj([k \in {"summary", "issues"} |->
    IF k = "issues" THEN JArr(<<ParserErrorIssue>>)
    ELSE JObj([f \in {"assessment", "strengths", "criticalIssues", "recommendations"} |->
           CASE f = "assessment" -> JStr(PARSE_ERROR_ASSESSMENT)
             [] f = "strengths" -> JArr(<<>>)
             [] f = "criticalIssues" -> JArr(<<"Failed to parse the Copilot response">>)
             [] OTHER -> JArr(<<"Try running the review again">>)])])

\* The value kept as the response gave it
ValueAsGiven(v) == v

\* Array.isArray(v) ? v : []
ArrayOrEmpty(v) == IF IsArray(v) THEN v ELSE JArr(<<>>)

extendedPrReviewResponse(result) ==
  IF \/ ~JsTruthy(GetOptional(GetOptional(result, "summary"), "assessment"))
     \/ ~IsArray(GetOptional(result, "issues"))
    THEN fallbackResult
    ELSE LET summary == result.fields["summary"]
             coerced ==
               SetField(SetField(SetField(summary.fields,
                 "strengths", ArrayOrEmpty(GetField(summary, "strengths"))),
                 "criticalIssues", ArrayOrEmpty(GetField(summary, "criticalIssues"))),
                 "recommendations", ArrayOrEmpty(GetField(summary, "recommendations")))
         IN  JObj(SetField(result.fields, "summary", JObj(coerced)))

\* Lines 979-980: the text handed to JSON.parse
ReviewJsonString(responseContent) ==
  LET jsonMatch == GreedyBraceMatch(responseContent)
  IN  IF jsonMatch.found THEN jsonMatch.text ELSE responseContent

\* JSON.parse(jsonString) throws
ReviewParseFails(responseContent) == ~JsonParse(ReviewJsonString(responseContent)).ok

\* What reviewPrChanges makes of the collected response text
NormalizePrReviewText(responseContent) ==
  LET parsedResult == JsonParse(ReviewJsonString(responseContent))
  IN  IF parsedResult.ok THEN Returned(extendedPrReviewResponse(parsedResult.value))
      ELSE Returned(extendedPrReviewResponse(JStr(responseContent)))

\* ------------------------------------------------------------------------
\* Breaking changes: analyzeWithCopilot, lines 380-417, and organizeResults
\* ------------------------------------------------------------------------

EmptySummary == JObj([k \in {"totalBreakingChanges"} |-> JNum])

EmptyBreakingChanges ==
  JObj([k \in {"breakingChanges", "summary"} |->
          IF k = "summary" THEN EmptySummary ELSE JArr(<<>>)])

\* Lines 380-417: the catch of line 414 rethrows what JSON.parse throws
analyzeWithCopilot(responseContent) ==
  IF responseContent = <<>> THEN Returned(EmptyBreakingChanges)
  ELSE LET fenced == FencedMatch(responseContent)
           jsonMatch == IF fenced.found THEN fenced ELSE GreedyBraceMatch(responseContent)
       IN  IF jsonMatch.found /\ jsonMatch.text # <<>>
             THEN LET parsed == JsonParse(Trim(jsonMatch.text))
                  IN  IF parsed.ok THEN Returned(parsed.value) ELSE Thrown
             ELSE Returned(EmptyBreakingChanges)

\* Lines 427-472: reading a field of null throws
organizeResults(breakingChanges) ==
  IF breakingChanges.type = "null" THEN Thrown
  ELSE LET changes == GetField(breakingChanges, "breakingChanges")
           withChanges ==
             IF ~JsTruthy(changes) \/ ~IsArray(changes)
               THEN SetField(breakingChanges.fields, "breakingChanges", JArr(<<>>))
               ELSE breakingChanges.fields
           withSummary ==
             IF ~JsTruthy(GetField(breakingChanges, "summary"))
               THEN SetField(withChanges, "summary", EmptySummary)
               ELSE withChanges
       IN  Returned(JObj(withSummary))

\* analyzeBreakingChanges, lines 122-126
NormalizeBreakingChangesText(responseContent) ==
  LET analysed == analyzeWithCopilot(responseContent)
  IN  IF analysed.kind = "throw" THEN analysed ELSE organizeResults(analysed.value)

\* ------------------------------------------------------------------------
\* Diff texts: what `git diff --patch` writes
\* ------------------------------------------------------------------------

\* A body line of a hunk by its kind: an added, a removed or a context line
\* (the content carries the line's place in the hunk), the
\* "\ No newline at end of file" marker, or a blank raw line.
RenderBodyLine(kind, idx) ==
  IF kind = "+" THEN <<"+", "a", Digits[idx + 1]>>
  ELSE IF kind = "-" THEN <<"-", "r", Digits[idx + 1]>>
  ELSE IF kind = " " THEN <<" ", "c", Digits[idx + 1]>>
  ELSE IF kind = "\\" THEN <<"\\", " ", "N", "o">>
  ELSE IF kind = "_" THEN <<" ">>
  ELSE <<>>

RenderBody(body) == [i \in 1..Len(body) |-> RenderBodyLine(body[i], i)]

\* The number of lines of the body on the old side and on the new side
OldCount(body) == Cardinality({i \in 1..Len(body) : body[i] \in {" ", "_", "-"}})
NewCount(body) == Cardinality({i \in 1..Len(body) : body[i] \in {" ", "_", "+"}})

\* One side of a hunk header. git leaves the count out when it is 1.
RenderRange(sign, start, count, short) ==
  <<sign>> \o ToDigits(start)
  \o (IF short /\ count = 1 THEN <<>> ELSE <<",">> \o ToDigits(count))

\* A hunk header: "full" writes both counts, "git" writes it as git does,
\* "bad" is a corrupted header (the '+' of the new range is lost).
RenderHeader(h) ==
  LET oc == OldCount(h.body)
      nc == NewCount(h.body)
  IN  IF h.form = "bad"
        THEN AT_AT \o <<" ">> \o RenderRange("-", h.oldStart, oc, FALSE)
             \o <<" ">> \o ToDigits(h.newStart) \o <<",">> \o ToDigits(nc) \o <<" ">> \o AT_AT
        ELSE AT_AT \o <<" ">> \o RenderRange("-", h.oldStart, oc, h.form = "git")
             \o <<" ">> \o RenderRange("+", h.newStart, nc, h.form = "git")
             \o <<" ">> \o AT_AT

RenderHunk(h) == <<RenderHeader(h)>> \o RenderBody(h.body)

RECURSIVE RenderHunks(_)
RenderHunks(hunks) ==
  IF hunks = <<>> THEN <<>> ELSE RenderHunk(hunks[1]) \o RenderHunks(Tail(hunks))

\* The header lines of a file: a malformed one lacks the a/ and b/ prefixes.
RenderFileHeader(f) ==
  IF f.ok
    THEN << DIFF_GIT \o <<"a", "/">> \o f.path \o <<" ", "b", "/">> \o f.path,
            <<"-", "-", "-", " ", "a", "/">> \o f.path,
            <<"+", "+", "+", " ", "b", "/">> \o f.path >>
    ELSE << DIFF_GIT \o f.path \o <<" ">> \o f.path >>

RECURSIVE RenderDiff(_)
RenderDiff(files) ==
  IF files = <<>> THEN <<>>
  ELSE RenderFileHeader(files[1]) \o RenderHunks(files[1].hunks) \o RenderDiff(Tail(files))

\* Longest hunk body of a generated diff
MaxBodyLines == 3
\* Longest hunk body of the diffs an issue is reconciled against
MaxRecBody == 3

SeqsUpTo(S, n) == UNION { [1..k -> S] : k \in 0..n }

LineKinds == {"+", "-", " ", "\\", ""}
Forms == {"full", "git", "bad"}

HunkSet(starts, bodies, forms) ==
  { [oldStart |-> s[1], newStart |-> s[2], body |-> b, form |-> f] :
      s \in starts, b \in bodies, f \in forms }

RichHunks == HunkSet({<<1, 1>>, <<10, 12>>}, SeqsUpTo(LineKinds, MaxBodyLines), Forms)
\* Hunks of at most one line, for the diffs with two hunks
SmallHunks == HunkSet({<<1, 1>>}, {<<>>} \cup { <<k>> : k \in LineKinds }, Forms)

PathX == <<"x">>
PathY == <<"y">>
PathZ == <<"z">>

FileDesc(path, ok, hunks) == [path |-> path, ok |-> ok, hunks |-> hunks]

\* Diffs for the parser: one file with one hunk of any body, one file with two
\* hunks, two files with a hunk each; each file header well-formed or not.
\* Hunks with more context around their changes than is collected, with
\* context between two changes, and without a change
ContextBodies ==
  { <<" ", " ", " ", " ", "+", " ", " ", " ", " ">>,
    <<" ", " ", " ", " ", "-", " ", "+", " ", " ">>,
    <<"+", " ", "-", " ", " ", " ", " ">>,
    <<" ", " ", " ", " ">> }

ContextHunks == HunkSet({<<1, 1>>}, ContextBodies, {"full"})

ParseInputs ==
  { <<FileDesc(PathX, ok, <<h>>)>> : ok \in BOOLEAN, h \in RichHunks \cup ContextHunks }
  \cup { <<FileDesc(PathX, ok, <<h1, h2>>)>> : ok \in BOOLEAN, h1 \in SmallHunks, h2 \in SmallHunks }
  \cup { <<FileDesc(PathX, ok1, <<h1>>), FileDesc(PathY, ok2, <<h2>>)>> :
           ok1 \in BOOLEAN, ok2 \in BOOLEAN, h1 \in SmallHunks, h2 \in SmallHunks }

\* Diffs for the reconciler: file x with one-line hunks at new lines 10, 20 and
\* 30 (each present or not, in file order), or with one longer hunk at line 10;
\* then possibly a hunk of file y.
RecBodies == SeqsUpTo({"+", "-", " "}, MaxRecBody) \ {<<>>}

OneLineBodies == { <<k>> : k \in {"+", "-", " "} }

RecHunkAt(n) == { <<>> } \cup { <<h>> : h \in HunkSet({<<n, n>>}, OneLineBodies, {"full"}) }

\* A hunk longer than a snippet: nine lines from new line 12 on, the added
\* line 15 in the middle
LongBody == <<" ", "+", "-", " ", "+", " ", "-", "+", " ">>

LongHunk == [oldStart |-> 12, newStart |-> 12, body |-> LongBody, form |-> "full"]

RecFileX ==
  { h1 \o h2 \o h3 : h1 \in RecHunkAt(10), h2 \in RecHunkAt(20), h3 \in RecHunkAt(30) }
  \cup { <<h>> : h \in HunkSet({<<10, 10>>}, RecBodies, {"full"}) }
  \cup { <<LongHunk>> }

RecFileY ==
  { <<>>, <<FileDesc(PathY, TRUE,
              <<[oldStart |-> 1, newStart |-> 1, body |-> <<"+">>, form |-> "full"]>>)>> }

RecInputs ==
  { (IF hs = <<>> THEN <<>> ELSE <<FileDesc(PathX, TRUE, hs)>>) \o y :
      hs \in RecFileX, y \in RecFileY }


\* Diffs parsed one after another by one GitService
MaxCalls == 3

ReparseInputs ==
  { <<>> }
  \cup { <<FileDesc(PathX, TRUE, <<h>>)>> :
           h \in HunkSet({<<1, 1>>, <<10, 12>>},
                         { <<"+">>, <<"-", " ", "\\", "">> }, {"full", "bad"}) }
  \cup { <<FileDesc(PathX, TRUE, <<h, h>>), FileDesc(PathY, ok, <<h>>)>> :
           ok \in BOOLEAN, h \in HunkSet({<<1, 1>>}, { <<"+">> }, {"full", "git"}) }

\* Diffs whose issues are opened in the editor: file x with one hunk from new
\* line 12 on.  "_" is the context line of an empty source line.
AnchoredBody == <<" ", "_", " ", "+", " ", " ">>
OneAnchorBody == <<"_", "+", " ">>

LocateHunks ==
  HunkSet({<<12, 12>>}, RecBodies \cup {LongBody, AnchoredBody, OneAnchorBody}, {"full"})

LocateInputs == { <<FileDesc(PathX, TRUE, <<h>>)>> : h \in LocateHunks }

LocateIssueLines == {NULL, 0, 12, 13, 15, 99}
LocateIssuePaths == {PathX, PathZ}

\* The file as the diff leaves it: the new side of the hunk
NewSideLines(body) ==
  LET idx == SelectSeq([i \in 1..Len(body) |-> i], LAMBDA i : body[i] \in {" ", "_", "+"})
  IN  [j \in 1..Len(idx) |-> Substring(RenderBodyLine(body[idx[j]], idx[j]), 1)]

\* The document opened: the file as the diff leaves it, or an edited one
LocateDocuments(files) ==
  { JoinLines(NewSideLines(files[1].hunks[1].body)),
    JoinLines(<<<<"e">>>> \o NewSideLines(files[1].hunks[1].body)),
    <<"e">> }

\* Line numbers a model reports: none, 0, and lines on, between and beyond the
\* lines of the diff.
IssueLines == {NULL, 0, 9, 10, 11, 15, 22, 25, 31, 99}
IssuePaths == {PathX, PathY, PathZ, <<>>}

\* ------------------------------------------------------------------------
\* Documents, code contexts and line numbers for the locator
\* ------------------------------------------------------------------------

MaxDocLines == 3
MaxCtxLines == 3

DocLineKinds == { <<"a">>, <<"b">>, <<"b", "a">> }

Documents == { JoinLines(ls) : ls \in SeqsUpTo(DocLineKinds, MaxDocLines) }

\* Lines of a code snippet: two context lines and an added line
CtxLineKinds == { <<" ", " ", "a">>, <<" ", " ", "b">>, <<"+", " ", "a">> }

Context(text) == [defined |-> TRUE, text |-> text]
NoCodeContext == [defined |-> FALSE, text |-> <<>>]

SnippetContexts ==
  { Context(JoinLines(ls)) : ls \in SeqsUpTo(CtxLineKinds, MaxCtxLines) \ {<<>>} }

\* Contexts that are not short snippets of formatCodeSnippet: lines without a
\* marker, a blank line between two anchors, more anchors than are searched
PlainContexts ==
  { Context(<<"a", "\n", "b">>),
    Context(<<" ", " ", "a", "\n", "\n", " ", " ", "b">>),
    Context(JoinLines(<<<<" ", " ", "a">>, <<" ", " ", "a">>, <<" ", " ", "a">>,
                        <<" ", " ", "b">>>>)) }

\* Contexts without two anchors
ShortContexts ==
  { NoCodeContext, Context(<<>>), Context(<<" ", " ">>), Context(<<" ", " ", "a">>),
    Context(<<"+", " ", "a", "\n", "-", " ", "b">>) }

\* message.lineNumber: parseInt(dataset.line, 10) || 0
NavLineNumbers == {-2, 0, 1, 2, 3, 4, 6}
ElsewhereLineNumbers == {0, 3}

NavRequest(document, canOpen, lineNumber, codeContext) ==
  [document |-> document, canOpen |-> canOpen,
   lineNumber |-> lineNumber, codeContext |-> codeContext]

NavInputs ==
  { NavRequest(d, o, n, c) :
      d \in Documents, o \in BOOLEAN, n \in NavLineNumbers, c \in ShortContexts }
  \cup
  { NavRequest(d, TRUE, n, c) :
      d \in Documents, n \in ElsewhereLineNumbers, c \in SnippetContexts \cup PlainContexts }

\* ------------------------------------------------------------------------
\* Response texts
\* ------------------------------------------------------------------------

MaxFragments == 2

ValidPrDescription == <<LBRACE, "title", "description", RBRACE>>
ValidPrReview == <<LBRACE, SUMMARY_KEY, LBRACE, "assessment", RBRACE, "issues", RBRACE>>
ValidBreakingChanges == <<LBRACE, "breakingChanges", RBRACE>>
WrongShape == <<LBRACE, "note", RBRACE>>
\* A review and a breaking-change answer with a text where an array belongs
ReviewNonArray ==
  <<LBRACE, SUMMARY_KEY, LBRACE, "assessment", "strengthsText", RBRACE, "issues", RBRACE>>
BreakingNonArray == <<LBRACE, "breakingChangesText", RBRACE>>
Malformed == <<LBRACE, PROSE, RBRACE>>

Fenced(text) == <<FENCE_JSON, NL>> \o text \o <<NL, FENCE>>

Fragments ==
  { <<PROSE>>, <<NL>>, <<HASH>>, <<LBRACE>>, <<NULL_LIT>>,
    <<FENCE_JSON, NL>>, <<NL, FENCE>>,
    ValidPrDescription, ValidPrReview, ValidBreakingChanges, WrongShape, Malformed,
    Fenced(ValidBreakingChanges), Fenced(<<NULL_LIT>>),
    ReviewNonArray, BreakingNonArray }

RECURSIVE Concat(_)
Concat(parts) == IF parts = <<>> THEN <<>> ELSE parts[1] \o Concat(Tail(parts))

Responses == { Concat(parts) : parts \in SeqsUpTo(Fragments, MaxFragments) }

NormKinds == {"prDescription", "prReview", "breakingChanges"}

\* ------------------------------------------------------------------------
\* The environment of a review request
\* ------------------------------------------------------------------------

QueryNames == {"commits", "diff", "files", "detailedDiff"}

\* What lies between the two branches: nothing, a commit that changes no
\* file, a commit that changes a file
Repos == {"same", "emptyCommit", "changed"}

RepoCommits(repo) == IF repo = "same" THEN 0 ELSE 1
RepoFiles(repo) == IF repo = "changed" THEN 1 ELSE 0

ChangedFile ==
  <<FileDesc(PathX, TRUE,
      <<[oldStart |-> 10, newStart |-> 10, body |-> <<"+">>, form |-> "full"]>>)>>

RepoGen(repo) == IF repo = "changed" THEN ChangedFile ELSE <<>>

ReviewResponses == { <<PROSE, NL>> \o ValidPrReview, <<PROSE>> }

\* workspace: a workspace folder is open; failing: the git commands that
\* exit with an error; model: selectChatModels finds a model; failure: where
\* the model request fails by itself
Envs ==
  { [workspace |-> w, failing |-> f, repo |-> r, model |-> m, failure |-> x] :
      w \in BOOLEAN, f \in SUBSET QueryNames, r \in Repos, m \in BOOLEAN,
      x \in {"none", "send", "stream"} }

NoEnv ==
  [workspace |-> FALSE, failing |-> {}, repo |-> "same", model |-> FALSE, failure |-> "none"]

\* ------------------------------------------------------------------------
\* Truncation of the diff placed in a prompt (promptService.ts,
\* smartTruncateContext)
\* ------------------------------------------------------------------------

\* Texts here are flat: sequences of characters with their newlines.

\* The thresholds, scaled to the size of the diffs explored
\* (MAX_CONTEXT_LENGTH is 100000 and MAX_FILE_CONTEXT 20000 in the source)
MAX_CONTEXT_LENGTH == 100
MAX_FILE_CONTEXT == 60

DIFF_GIT_MARK == <<"d", "i", "f", "f", " ", "-", "-", "g", "i", "t">>
HUNK_MARK == <<"\n", "@", "@">>

\* '\n... (file diff truncated)'
TRUNCATED_MARK == <<"\n", "... (file diff truncated)">>

\* text.split(separator) with a string separator no two occurrences of which
\* overlap: the pieces between its occurrences
SplitOn(text, sep) ==
  LET hits == { i \in 1..(Len(text) - Len(sep) + 1) :
                 SubSeq(text, i, i + Len(sep) - 1) = sep }
      n == Cardinality(hits)
      hit(k) == CHOOSE i \in hits : Cardinality({ j \in hits : j < i }) = k - 1
      from(k) == IF k = 1 THEN 1 ELSE hit(k - 1) + Len(sep)
      to(k) == IF k = n + 1 THEN Len(text) ELSE hit(k) - 1
  IN  [k \in 1..(n + 1) |-> SubSeq(text, from(k), to(k))]

\* text.lastIndexOf(pattern, position): the last occurrence that starts at or
\* before the 0-based position, -1 when there is none
LastIndexOfFrom(text, pattern, position) ==
  LET hits == { i \in 1..Min(position + 1, Len(text) - Len(pattern) + 1) :
                 SubSeq(text, i, i + Len(pattern) - 1) = pattern }
  IN  IF hits = {} THEN -1 ELSE (CHOOSE i \in hits : \A j \in hits : j <= i) - 1

\* The callback of files.map, lines 229-250
TruncateFile(file, index) ==
  IF IsBlank(file) THEN <<>>
  ELSE
    LET prefix == IF index = 0 /\ IsBlank(file) THEN <<>> ELSE DIFF_GIT_MARK
        truncateIndex == LastIndexOfFrom(file, HUNK_MARK, MAX_FILE_CONTEXT)
    IN  IF Len(file) > MAX_FILE_CONTEXT
          THEN IF truncateIndex > 0
                 THEN prefix \o SubSeq(file, 1, truncateIndex) \o TRUNCATED_MARK
                 ELSE prefix \o SubSeq(file, 1, MAX_FILE_CONTEXT) \o TRUNCATED_MARK
          ELSE prefix \o file

RECURSIVE JoinTexts(_)
JoinTexts(texts) == IF texts = <<>> THEN <<>> ELSE texts[1] \o JoinTexts(Tail(texts))

smartTruncateContext(text) ==
  LET files == SplitOn(text, DIFF_GIT_MARK)
  IN  JoinTexts([i \in 1..Len(files) |-> TruncateFile(files[i], i - 1)])

\* The diff of a prompt, promptService.ts line 385
PromptDiff(text) ==
  IF Len(text) > MAX_CONTEXT_LENGTH THEN smartTruncateContext(text) ELSE text

\* ------------------------------------------------------------------------
\* Diffs large enough to be truncated
\* ------------------------------------------------------------------------

MaxTruncHunks == 3

\* An added line, a long added line, an added line that quotes the text
\* 'diff --git'
TruncLine(kind) ==
  IF kind = "+" THEN <<"+", "a">>
  ELSE IF kind = "L" THEN <<"+">> \o [i \in 1..24 |-> "a"]
  ELSE <<"+">> \o DIFF_GIT_MARK

TruncBodies == { <<"+">>, <<"L">>, <<"m", "L", "L", "L">> }

TruncHunk(body) ==
  [oldStart |-> 10, newStart |-> 10, body |-> body, form |-> "full"]

TruncHunkLines(h) ==
  <<RenderHeader([h EXCEPT !.body = [i \in 1..Len(h.body) |-> "+"]])>>
  \o [i \in 1..Len(h.body) |-> TruncLine(h.body[i])]

RECURSIVE TruncHunksLines(_)
TruncHunksLines(hunks) ==
  IF hunks = <<>> THEN <<>> ELSE TruncHunkLines(hunks[1]) \o TruncHunksLines(Tail(hunks))

TruncFileLines(f) == RenderFileHeader(f) \o TruncHunksLines(f.hunks)

RECURSIVE TruncFilesLines(_)
TruncFilesLines(files) ==
  IF files = <<>> THEN <<>> ELSE TruncFileLines(files[1]) \o TruncFilesLines(Tail(files))

\* What --stat writes before the patch
StatLines == << <<" ", "x", " ", "|", " ", "1", " ", "+">> >>

\* stdout of git diff --stat --patch
TruncDiffLines(files) == StatLines \o TruncFilesLines(files)

TruncFiles(path) ==
  { FileDesc(path, TRUE, [i \in 1..Len(bodies) |-> TruncHunk(bodies[i])]) :
      bodies \in SeqsUpTo(TruncBodies, MaxTruncHunks) \ {<<>>} }

SecondFiles ==
  { FileDesc(PathY, TRUE, <<TruncHunk(b)>>) : b \in TruncBodies }

TruncInputs ==
  { <<f>> : f \in TruncFiles(PathX) }
  \cup { <<f, g>> : f \in TruncFiles(PathX), g \in SecondFiles }

\* The lines of a text, each with its newline
RECURSIVE FlatText(_)
FlatText(lines) ==
  IF lines = <<>> THEN <<>> ELSE lines[1] \o <<"\n">> \o FlatText(Tail(lines))

\* ------------------------------------------------------------------------
\* Analysis requests and the configuration they read
\* ------------------------------------------------------------------------

\* No model family: the message has no modelFamily, the setting is unset
NoFamily == ""
DEFAULT_FAMILY == "copilot"
Families == {"gpt-4o", "claude-3.5-sonnet"}

MaxRequests == 2
Requests == 1..MaxRequests

AnalysisKinds == {"breakingChanges", "prReview"}

\* An 'analyzeBreakingChanges' or a 'reviewPr' message: its kind and the model
\* family it names; pc is the step of its handler, family the family its
\* model was selected with
Analysis(kind, modelFamily) ==
  [kind |-> kind, modelFamily |-> modelFamily, pc |-> "requested", family |-> NoFamily]

\* ------------------------------------------------------------------------
\* The branch list a panel receives
\* ------------------------------------------------------------------------

MaxBranches == 3

BranchNames == {"main", "master", "develop", "Main", "feature", "release"}

\* b.toLowerCase()
ToLowerCase(b) == IF b = "Main" THEN "main" ELSE b

\* The branches of the repository: no name twice
BranchLists ==
  { bs \in SeqsUpTo(BranchNames, MaxBranches) :
      \A i, j \in 1..Len(bs) : i # j => bs[i] # bs[j] }

\* The setting copilotPlusPlus.defaultTargetBranch: unset, a branch, a branch
\* that may be missing from the repository
BranchSettings == {"", "release", "feature", "main"}

Panels == {"prDescription", "prReview"}

\* Nothing selected: the state before the message, and find() without a hit
UNDEFINED == "undefined"

\* The 'getBranches' handler: the branchesList message
BranchesListMessage(panel, branches, setting) ==
  [panel |-> panel, branches |-> branches, currentBranch |-> "feature",
   defaultTargetBranch |-> setting]

NoMessage == BranchesListMessage("none", <<>>, "")

\* branches.find(pred) || otherwise
FindOr(branches, Pred(_), otherwise) ==
  LET hits == { i \in 1..Len(branches) : Pred(branches[i]) }
  IN  IF hits = {} THEN otherwise
      ELSE branches[CHOOSE i \in hits : \A j \in hits : i <= j]

\* ------------------------------------------------------------------------
\* State
\* ------------------------------------------------------------------------

\* ------------------------------------------------------------------------
\* Review panels and their webviews (prReviewPanel.ts, media/prReview.js)
\* ------------------------------------------------------------------------

\* Panels created and 'reviewPr' messages sent in one run
MaxPanels == 2
MaxReviews == 2

\* PrReviewPanel.currentPanel = undefined
NoPanel == 0

\* reviewResult and error of the App are null
NoReview == 0
NoError == ""

\* useState of the App: isLoading false, reviewResult and error null
NewApp == [isLoading |-> FALSE, reviewResult |-> NoReview, error |-> NoError]

\* A panel as createWebviewPanel returns it
NewPanel == [disposed |-> FALSE, posted |-> <<>>, app |-> NewApp]

\* 'reviewComplete' with the result of review r
ReviewCompleteOf(r) == [command |-> "reviewComplete", result |-> r]

REVIEW_FAILED == "Failed to review PR changes"

\* The messageHandler of the App
messageHandler(app, message) ==
  CASE message.command = "startLoading" ->
         [app EXCEPT !.isLoading = TRUE, !.error = NoError]
    [] message.command = "reviewComplete" ->
         [isLoading |-> FALSE, reviewResult |-> message.result, error |-> NoError]
    [] message.command = "error" ->
         [isLoading |-> FALSE, reviewResult |-> NoReview, error |-> message.message]
    [] OTHER -> app

\* A webview that takes messages whatever has become of its panel
IsReachableAlways(panel) == TRUE

\* this._panel.webview can be reached until the panel is disposed: the getter
\* of a disposed vscode.WebviewPanel throws 'Webview is disposed', and the
\* code has no check of its own before it posts
IsReachable(panel) == ~panel.disposed

\* this._panel.webview.postMessage(message): the message reaches the App
PostMessage(panel, message) ==
  [panel EXCEPT !.posted = Append(@, message), !.app = messageHandler(@, message)]

VARIABLES
  gen,        \* the files and hunks git reports (what the diff text is written from)
  diff,       \* stdout of `git diff --patch`, as its lines
  result,     \* the review result the model returned: its issues
  parsed,     \* detailedDiff: the parser's result
  enhanced,   \* what enhanceReviewResults returned
  dpc         \* the step of the parse / reconcile pipeline

VARIABLES
  navigate,   \* the navigateToFile message and the document it names
  position,   \* what navigateToFile did with the editor
  search      \* the content search navigateToFile made in the document, if any

VARIABLES
  response,   \* the text the model answers with
  normKind,   \* the request the response answers
  normalized  \* what the normalizer of that request made of it

VARIABLES
  env,        \* the workspace, the repository and the model of a review request
  rpc,        \* the step of the review request
  done,       \* the git queries that have completed
  gathered,   \* commits and files the queries returned, and the diff text
  received,   \* responseContent: the fragments of the response collected
  cancelled,  \* the user has cancelled the progress notification
  posted,     \* the messages posted to the webview
  log         \* error entries of the output channel and the console

VARIABLES
  languageModel,  \* the setting copilotPlusPlus.languageModel
  analyses        \* the analysis requests in flight

VARIABLES
  promptDiff      \* the diff text placed in the prompt

VARIABLES
  branchesList,   \* the branchesList message a webview receives
  targetBranch,   \* the target branch selected in the webview
  selected        \* the webview has handled the message

VARIABLES
  calls           \* the parse calls made so far: the text and what was returned

VARIABLES
  currentPanel,   \* PrReviewPanel.currentPanel: a panel of panels, or NoPanel
  panels,         \* the review panels created so far, each with its webview
  reviews         \* the 'reviewPr' messages sent so far, in the order sent

diffVars == <<gen, diff, result, parsed, enhanced, dpc>>
navVars == <<navigate, position, search>>
normVars == <<response, normKind, normalized>>
reviewVars == <<env, rpc, done, gathered, received, cancelled, posted, log>>

configVars == <<languageModel, analyses>>
promptVars == <<promptDiff>>
branchVars == <<branchesList, targetBranch, selected>>
callVars == <<calls>>
panelVars == <<currentPanel, panels, reviews>>

vars == <<gen, diff, result, parsed, enhanced, dpc, navigate, position, search,
          response, normKind, normalized,
          env, rpc, done, gathered, received, cancelled, posted, log,
          languageModel, analyses, promptDiff,
          branchesList, targetBranch, selected, calls,
          currentPanel, panels, reviews>>

NoResult == [issues |-> <<>>]

DiffIdle ==
  /\ gen = <<>>
  /\ diff = <<>>
  /\ result = NoResult
  /\ parsed = <<>>
  /\ enhanced = NoResult
  /\ dpc = "idle"

NavPending == [kind |-> "pending", line |-> 0, character |-> 0]

NavIdle ==
  /\ navigate = NavRequest(<<>>, FALSE, 0, NoCodeContext)
  /\ position = NavNone
  /\ search = NoSearch

NotNormalized == [kind |-> "pending", value |-> JUndefined]

NormIdle ==
  /\ response = <<>>
  /\ normKind = "none"
  /\ normalized = NotNormalized

NothingGathered == [commits |-> 0, files |-> 0, diff |-> <<>>]

ReviewIdle ==
  /\ env = NoEnv
  /\ rpc = "none"
  /\ done = {}
  /\ gathered = NothingGathered
  /\ received = <<>>
  /\ cancelled = FALSE
  /\ posted = <<>>
  /\ log = <<>>

ConfigIdle ==
  /\ languageModel = NoFamily
  /\ analyses = <<>>

NoPrompt == <<"[no prompt]">>

PromptIdle == promptDiff = NoPrompt

BranchIdle ==
  /\ branchesList = NoMessage
  /\ targetBranch = UNDEFINED
  /\ selected = FALSE

CallsIdle == calls = <<>>

PanelIdle ==
  /\ currentPanel = NoPanel
  /\ panels = <<>>
  /\ reviews = <<>>

\* ------------------------------------------------------------------------
\* Parse and reconcile
\* ------------------------------------------------------------------------

\* getDetailedDiffBetweenBranches: an empty stdout gives [], any other is parsed
ParseDiff ==
  /\ dpc = "input"
  /\ parsed' = (IF IsBlankText(diff) THEN <<>> ELSE parseGitDiffWithLineDetails(diff))
  /\ dpc' = "parsed"
  /\ UNCHANGED <<gen, diff, result, enhanced>>
  /\ UNCHANGED <<navVars, normVars, reviewVars>>
  /\ UNCHANGED <<configVars, promptVars, branchVars>>
  /\ UNCHANGED <<callVars, panelVars>>

\* The reconciliation without the clone of line 147: lineContext is written
\* into the issues of the result passed in
EnhanceInPlace ==
  /\ dpc = "parsed"
  /\ enhanced' = enhanceReviewResults(result, parsed)
  /\ result' = enhanceReviewResults(result, parsed)
  /\ dpc' = "enhanced"
  /\ UNCHANGED <<gen, diff, parsed>>
  /\ UNCHANGED <<navVars, normVars, reviewVars>>
  /\ UNCHANGED <<configVars, promptVars, branchVars>>
  /\ UNCHANGED <<callVars, panelVars>>

\* reviewPr, line 127: the issues of the result are reconciled with the parse
Enhance ==
  /\ dpc = "parsed"
  /\ enhanced' = enhanceReviewResults(result, parsed)
  /\ dpc' = "enhanced"
  /\ UNCHANGED <<gen, diff, result, parsed>>
  /\ UNCHANGED <<navVars, normVars, reviewVars>>
  /\ UNCHANGED <<configVars, promptVars, branchVars>>
  /\ UNCHANGED <<callVars, panelVars>>

NextDiff == ParseDiff \/ Enhance

InitParse ==
  /\ gen \in ParseInputs
  /\ diff = RenderDiff(gen)
  /\ result = [issues |-> <<Issue(PathX, 1)>>]
  /\ parsed = <<>>
  /\ enhanced = NoResult
  /\ dpc = "input"
  /\ NavIdle /\ NormIdle /\ ReviewIdle
  /\ ConfigIdle /\ PromptIdle /\ BranchIdle /\ CallsIdle /\ PanelIdle

InitReconcile ==
  /\ gen \in RecInputs
  /\ diff = RenderDiff(gen)
  /\ result \in { [issues |-> <<Issue(p, n)>>] : p \in IssuePaths, n \in IssueLines }
  /\ parsed = <<>>
  /\ enhanced = NoResult
  /\ dpc = "input"
  /\ NavIdle /\ NormIdle /\ ReviewIdle
  /\ ConfigIdle /\ PromptIdle /\ BranchIdle /\ CallsIdle /\ PanelIdle

\* The parser on generated diff texts
SpecParse == InitParse /\ [][NextDiff]_vars

\* The parser and the reconciler on a diff and a reported issue
SpecReconcile == InitReconcile /\ [][NextDiff]_vars

\* ------------------------------------------------------------------------
\* Navigation
\* ------------------------------------------------------------------------

\* The 'navigateToFile' message: the handler of lines 85-91 runs
\* navigateToFile; what it throws ends in showErrorMessage
NavigateToFile ==
  /\ position = NavPending
  /\ position' = navigateToFile(navigate.canOpen, navigate.document,
                                navigate.lineNumber, navigate.codeContext)
  /\ search' = (IF navigate.canOpen THEN ContentSearch(navigate.codeContext) ELSE NoSearch)
  /\ UNCHANGED navigate
  /\ UNCHANGED <<diffVars, normVars, reviewVars>>
  /\ UNCHANGED <<configVars, promptVars, branchVars>>
  /\ UNCHANGED <<callVars, panelVars>>

NextNav == NavigateToFile

InitNav ==
  /\ navigate \in NavInputs
  /\ position = NavPending
  /\ search = NoSearch
  /\ DiffIdle /\ NormIdle /\ ReviewIdle
  /\ ConfigIdle /\ PromptIdle /\ BranchIdle /\ CallsIdle /\ PanelIdle

\* The locator on a document, a line number and a code context
SpecNav == InitNav /\ [][NextNav]_vars

\* IssueDetails.handleClick (prReview.js 425-432): the webview posts
\* 'navigateToFile' with the issue's file, line number and code snippet; the
\* file opens or not, with the text it has by then
OpenIssue ==
  /\ dpc = "enhanced"
  /\ position = NavNone
  /\ navigate = NavRequest(<<>>, FALSE, 0, NoCodeContext)
  /\ \E n \in 1..Len(enhanced.issues), document \in LocateDocuments(gen), canOpen \in BOOLEAN :
       LET issue == enhanced.issues[n]
       IN  navigate' = NavRequest(document, canOpen, issue.lineNumber,
                         IF issue.lineContext.present
                           THEN Context(issue.lineContext.codeSnippet)
                           ELSE NoCodeContext)
  /\ position' = NavPending
  /\ UNCHANGED search
  /\ UNCHANGED <<diffVars, normVars, reviewVars>>
  /\ UNCHANGED <<configVars, promptVars, branchVars>>
  /\ UNCHANGED <<callVars, panelVars>>

NextLocate == ParseDiff \/ Enhance \/ OpenIssue \/ NavigateToFile

InitLocate ==
  /\ gen \in LocateInputs
  /\ diff = RenderDiff(gen)
  /\ result \in { [issues |-> <<Issue(p, n)>>] : p \in LocateIssuePaths, n \in LocateIssueLines }
  /\ parsed = <<>>
  /\ enhanced = NoResult
  /\ dpc = "input"
  /\ NavIdle /\ NormIdle /\ ReviewIdle
  /\ ConfigIdle /\ PromptIdle /\ BranchIdle /\ CallsIdle /\ PanelIdle

\* An issue reconciled with the diff and then opened in the editor
SpecLocate == InitLocate /\ [][NextLocate]_vars

\* ------------------------------------------------------------------------
\* Normalization
\* ------------------------------------------------------------------------

NormalizePrDescription ==
  /\ normKind = "prDescription" /\ normalized = NotNormalized
  /\ normalized' = NormalizePrDescriptionText(response)
  /\ UNCHANGED <<response, normKind>>
  /\ UNCHANGED <<diffVars, navVars, reviewVars>>
  /\ UNCHANGED <<configVars, promptVars, branchVars>>
  /\ UNCHANGED <<callVars, panelVars>>

NormalizePrReview ==
  /\ normKind = "prReview" /\ normalized = NotNormalized
  /\ normalized' = NormalizePrReviewText(response)
  /\ UNCHANGED <<response, normKind>>
  /\ UNCHANGED <<diffVars, navVars, reviewVars>>
  /\ UNCHANGED <<configVars, promptVars, branchVars>>
  /\ UNCHANGED <<callVars, panelVars>>

NormalizeBreakingChanges ==
  /\ normKind = "breakingChanges" /\ normalized = NotNormalized
  /\ normalized' = NormalizeBreakingChangesText(response)
  /\ UNCHANGED <<response, normKind>>
  /\ UNCHANGED <<diffVars, navVars, reviewVars>>
  /\ UNCHANGED <<configVars, promptVars, branchVars>>
  /\ UNCHANGED <<callVars, panelVars>>

NextNorm == NormalizePrDescription \/ NormalizePrReview \/ NormalizeBreakingChanges

InitNorm ==
  /\ response \in Responses
  /\ normKind \in NormKinds
  /\ normalized = NotNormalized
  /\ DiffIdle /\ NavIdle /\ ReviewIdle
  /\ ConfigIdle /\ PromptIdle /\ BranchIdle /\ CallsIdle /\ PanelIdle

\* The three normalizers on a response text
SpecNorm == InitNorm /\ [][NextNorm]_vars

\* ------------------------------------------------------------------------
\* A review request (prReviewPanel.ts, reviewPr; copilotService.ts,
\* reviewPrChanges)
\* ------------------------------------------------------------------------

StartLoading == [command |-> "startLoading"]
ErrorMessage(message) == [command |-> "error", message |-> message]
ReviewComplete(summary, issues) ==
  [command |-> "reviewComplete", summary |-> summary, issues |-> issues]

ErrorEntry(source, message) == [level |-> "ERROR", source |-> source, message |-> message]

NO_CHANGES == "No changes detected between the selected branches"
NO_MODEL == "Failed to review PR changes: No suitable language model found"
REQUEST_FAILED == "Failed to review PR changes: request failed"

\* isLoading of the webview's App after the messages it received: false at
\* first, set by 'startLoading', reset by 'reviewComplete' and by 'error'
WebviewLoading(messages) ==
  messages # <<>> /\ messages[Len(messages)].command = "startLoading"

\* A catch that logs and posts nothing
FailReviewSilent(message, entries) ==
  /\ log' = log \o entries \o <<ErrorEntry("console", "PR review failed")>>
  /\ posted' = posted
  /\ rpc' = "settled"

\* The catch of reviewPr, lines 133-139, after the entries the services wrote
FailReview(message, entries) ==
  /\ log' = log \o entries \o <<ErrorEntry("console", "PR review failed")>>
  /\ posted' = Append(posted, ErrorMessage(message))
  /\ rpc' = "settled"

\* The catch of reviewPrChanges, lines 996-1002
CopilotEntry == ErrorEntry("CopilotService", "Error reviewing PR changes")

\* The 'reviewPr' message, up to the queries of line 104
RequestReview ==
  /\ rpc = "requested"
  /\ posted' = Append(posted, StartLoading)
  /\ rpc' = "gathering"
  /\ UNCHANGED <<env, done, gathered, received, cancelled, log>>
  /\ UNCHANGED <<diffVars, navVars, normVars>>
  /\ UNCHANGED <<configVars, promptVars, branchVars>>
  /\ UNCHANGED <<callVars, panelVars>>

\* A query throws without a workspace folder and when git exits with an error
QueryFails(q) == ~env.workspace \/ q \in env.failing

\* One of the four queries of Promise.all completes: what it throws is
\* logged and an empty result is returned in its place
Query(q) ==
  /\ rpc = "gathering" /\ q \notin done
  /\ done' = done \cup {q}
  /\ log' = IF QueryFails(q) THEN Append(log, ErrorEntry("GitService", q)) ELSE log
  /\ gathered' =
       CASE q = "commits" ->
              [gathered EXCEPT !.commits = IF QueryFails(q) THEN 0 ELSE RepoCommits(env.repo)]
         [] q = "files" ->
              [gathered EXCEPT !.files = IF QueryFails(q) THEN 0 ELSE RepoFiles(env.repo)]
         [] q = "diff" ->
              [gathered EXCEPT !.diff = IF QueryFails(q) THEN <<>> ELSE diff]
         [] OTHER -> gathered
  /\ parsed' =
       IF q = "detailedDiff" /\ ~QueryFails(q) /\ ~IsBlankText(diff)
         THEN parseGitDiffWithLineDetails(diff)
         ELSE parsed
  /\ UNCHANGED <<env, rpc, received, cancelled, posted>>
  /\ UNCHANGED <<gen, diff, result, enhanced, dpc>>
  /\ UNCHANGED <<navVars, normVars>>
  /\ UNCHANGED <<configVars, promptVars, branchVars>>
  /\ UNCHANGED <<callVars, panelVars>>

\* The missing await: the request goes on while queries are still running
CheckChangesEarly ==
  /\ rpc = "gathering" /\ done # {}
  /\ IF gathered.commits = 0 /\ gathered.files = 0
       THEN FailReview(NO_CHANGES, <<>>)
       ELSE /\ rpc' = "selecting"
            /\ UNCHANGED <<posted, log>>
  /\ UNCHANGED <<env, done, gathered, received, cancelled>>
  /\ UNCHANGED <<diffVars, navVars, normVars>>
  /\ UNCHANGED <<configVars, promptVars, branchVars>>
  /\ UNCHANGED <<callVars, panelVars>>

\* The request goes on to the model whatever the queries returned
CheckChangesSkipped ==
  /\ rpc = "gathering" /\ done = QueryNames
  /\ rpc' = "selecting"
  /\ UNCHANGED <<posted, log>>
  /\ UNCHANGED <<env, done, gathered, received, cancelled>>
  /\ UNCHANGED <<diffVars, navVars, normVars>>
  /\ UNCHANGED <<configVars, promptVars, branchVars>>
  /\ UNCHANGED <<callVars, panelVars>>

\* Lines 111-113, once all four queries have completed
CheckChanges ==
  /\ rpc = "gathering" /\ done = QueryNames
  /\ IF gathered.commits = 0 /\ gathered.files = 0
       THEN FailReview(NO_CHANGES, <<>>)
       ELSE /\ rpc' = "selecting"
            /\ UNCHANGED <<posted, log>>
  /\ UNCHANGED <<env, done, gathered, received, cancelled>>
  /\ UNCHANGED <<diffVars, navVars, normVars>>
  /\ UNCHANGED <<configVars, promptVars, branchVars>>
  /\ UNCHANGED <<callVars, panelVars>>

\* selectChatModels, lines 931-940
SelectModel ==
  /\ rpc = "selecting"
  /\ IF env.model
       THEN /\ rpc' = "requesting"
            /\ UNCHANGED <<posted, log>>
       ELSE FailReview(NO_MODEL,
              <<ErrorEntry("CopilotService", "No suitable language model found"),
                CopilotEntry>>)
  /\ UNCHANGED <<env, done, gathered, received, cancelled>>
  /\ UNCHANGED <<diffVars, navVars, normVars>>
  /\ UNCHANGED <<configVars, promptVars, branchVars>>
  /\ UNCHANGED <<callVars, panelVars>>

\* The user cancels the progress notification while the request is with the
\* model: the token passed to sendRequest is cancelled
Cancel ==
  /\ rpc \in {"requesting", "streaming"} /\ ~cancelled
  /\ cancelled' = TRUE
  /\ UNCHANGED <<env, rpc, done, gathered, received, posted, log>>
  /\ UNCHANGED <<diffVars, navVars, normVars>>
  /\ UNCHANGED <<configVars, promptVars, branchVars>>
  /\ UNCHANGED <<callVars, panelVars>>

\* sendRequest, line 949, resolves with a response stream
ResponseStarts ==
  /\ rpc = "requesting" /\ env.failure # "send"
  /\ rpc' = "streaming"
  /\ UNCHANGED <<env, done, gathered, received, cancelled, posted, log>>
  /\ UNCHANGED <<diffVars, navVars, normVars>>
  /\ UNCHANGED <<configVars, promptVars, branchVars>>
  /\ UNCHANGED <<callVars, panelVars>>

\* sendRequest rejects: the request failed, or its token was cancelled
RequestThrows ==
  /\ rpc = "requesting" /\ (env.failure = "send" \/ cancelled)
  /\ FailReview(REQUEST_FAILED, <<CopilotEntry>>)
  /\ UNCHANGED <<env, done, gathered, received, cancelled>>
  /\ UNCHANGED <<diffVars, navVars, normVars>>
  /\ UNCHANGED <<configVars, promptVars, branchVars>>
  /\ UNCHANGED <<callVars, panelVars>>

\* One turn of the loop of lines 957-970
ReceiveFragment ==
  /\ rpc = "streaming" /\ Len(received) < Len(response)
  /\ received' = Append(received, response[Len(received) + 1])
  /\ UNCHANGED <<env, rpc, done, gathered, cancelled, posted, log>>
  /\ UNCHANGED <<diffVars, navVars, normVars>>
  /\ UNCHANGED <<configVars, promptVars, branchVars>>
  /\ UNCHANGED <<callVars, panelVars>>

\* The stream ends: after the last fragment, or where a cancelled request
\* stops delivering
StreamEnds ==
  /\ rpc = "streaming"
  /\ ((Len(received) = Len(response) /\ env.failure # "stream") \/ cancelled)
  /\ rpc' = "received"
  /\ UNCHANGED <<env, done, gathered, received, cancelled, posted, log>>
  /\ UNCHANGED <<diffVars, navVars, normVars>>
  /\ UNCHANGED <<configVars, promptVars, branchVars>>
  /\ UNCHANGED <<callVars, panelVars>>

\* The stream throws: the request failed, or its token was cancelled
StreamThrows ==
  /\ rpc = "streaming" /\ (env.failure = "stream" \/ cancelled)
  /\ FailReview(REQUEST_FAILED, <<CopilotEntry>>)
  /\ UNCHANGED <<env, done, gathered, received, cancelled>>
  /\ UNCHANGED <<diffVars, navVars, normVars>>
  /\ UNCHANGED <<configVars, promptVars, branchVars>>
  /\ UNCHANGED <<callVars, panelVars>>

\* Lines 977-995: the collected text is normalized
NormalizeReview ==
  /\ rpc = "received"
  /\ normalized' = NormalizePrReviewText(received)
  /\ result' = [issues |-> normalized'.value.fields["issues"].items]
  /\ log' = IF ReviewParseFails(received)
              THEN Append(log, ErrorEntry("CopilotService", "Error parsing PR review JSON"))
              ELSE log
  /\ rpc' = "normalized"
  /\ UNCHANGED <<env, done, gathered, received, cancelled, posted>>
  /\ UNCHANGED <<gen, diff, parsed, enhanced, dpc>>
  /\ UNCHANGED <<navVars, response, normKind>>
  /\ UNCHANGED <<configVars, promptVars, branchVars>>
  /\ UNCHANGED <<callVars, panelVars>>

\* Line 127: the issues are reconciled with the detailed diff
ReconcileReview ==
  /\ rpc = "normalized"
  /\ enhanced' = enhanceReviewResults(result, parsed)
  /\ rpc' = "reconciled"
  /\ UNCHANGED <<env, done, gathered, received, cancelled, posted, log>>
  /\ UNCHANGED <<gen, diff, result, parsed, dpc>>
  /\ UNCHANGED <<navVars, normVars>>
  /\ UNCHANGED <<configVars, promptVars, branchVars>>
  /\ UNCHANGED <<callVars, panelVars>>

\* Lines 129-132
PresentReview ==
  /\ rpc = "reconciled"
  /\ posted' = Append(posted,
                 ReviewComplete(normalized.value.fields["summary"], enhanced.issues))
  /\ rpc' = "settled"
  /\ UNCHANGED <<env, done, gathered, received, cancelled, log>>
  /\ UNCHANGED <<diffVars, navVars, normVars>>
  /\ UNCHANGED <<configVars, promptVars, branchVars>>
  /\ UNCHANGED <<callVars, panelVars>>

NextReview ==
  \/ RequestReview
  \/ \E q \in QueryNames : Query(q)
  \/ CheckChanges
  \/ SelectModel
  \/ Cancel
  \/ ResponseStarts
  \/ RequestThrows
  \/ ReceiveFragment
  \/ StreamEnds
  \/ StreamThrows
  \/ NormalizeReview
  \/ ReconcileReview
  \/ PresentReview

InitReview ==
  /\ env \in { e \in Envs : ~e.workspace => e.failing = {} }
  /\ gen = RepoGen(env.repo)
  /\ diff = RenderDiff(gen)
  /\ result = NoResult
  /\ parsed = <<>>
  /\ enhanced = NoResult
  /\ dpc = "idle"
  /\ response \in ReviewResponses
  /\ normKind = "prReview"
  /\ normalized = NotNormalized
  /\ rpc = "requested"
  /\ done = {}
  /\ gathered = NothingGathered
  /\ received = <<>>
  /\ cancelled = FALSE
  /\ posted = <<>>
  /\ log = <<>>
  /\ NavIdle
  /\ ConfigIdle /\ PromptIdle /\ BranchIdle /\ CallsIdle /\ PanelIdle

\* One review request, from the webview's message to the message that ends it
SpecReview == InitReview /\ [][NextReview]_vars

\* ------------------------------------------------------------------------
\* A PR description request (prDescriptionPanel.ts, generatePrDescription)
\* ------------------------------------------------------------------------

DescriptionQueryNames == {"commits", "diff", "files"}

DescriptionResponses == { <<PROSE, NL>> \o ValidPrDescription, <<PROSE>> }

GenerationComplete(value) == [command |-> "generationComplete", result |-> value]

\* The catch of generatePrDescription, lines 127-133
FailDescription(message, entries) ==
  /\ log' = log \o entries \o <<ErrorEntry("console", "PR description generation failed")>>
  /\ posted' = Append(posted, ErrorMessage(message))
  /\ rpc' = "settled"

\* The 'generatePrDescription' message, up to the queries of line 104
RequestDescription ==
  /\ rpc = "describe"
  /\ posted' = Append(posted, StartLoading)
  /\ rpc' = "describeGathering"
  /\ UNCHANGED <<env, done, gathered, received, cancelled, log>>
  /\ UNCHANGED <<diffVars, navVars, normVars>>
  /\ UNCHANGED <<configVars, promptVars, branchVars>>
  /\ UNCHANGED <<callVars, panelVars>>

\* One of the three queries of Promise.all completes
DescriptionQuery(q) ==
  /\ rpc = "describeGathering" /\ q \notin done
  /\ done' = done \cup {q}
  /\ log' = IF QueryFails(q) THEN Append(log, ErrorEntry("GitService", q)) ELSE log
  /\ gathered' =
       CASE q = "commits" ->
              [gathered EXCEPT !.commits = IF QueryFails(q) THEN 0 ELSE RepoCommits(env.repo)]
         [] q = "files" ->
              [gathered EXCEPT !.files = IF QueryFails(q) THEN 0 ELSE RepoFiles(env.repo)]
         [] OTHER ->
              [gathered EXCEPT !.diff = IF QueryFails(q) THEN <<>> ELSE diff]
  /\ UNCHANGED <<env, rpc, received, cancelled, posted>>
  /\ UNCHANGED <<diffVars, navVars, normVars>>
  /\ UNCHANGED <<configVars, promptVars, branchVars>>
  /\ UNCHANGED <<callVars, panelVars>>

\* Lines 110-112, once the three queries have completed
CheckDescriptionChanges ==
  /\ rpc = "describeGathering" /\ done = DescriptionQueryNames
  /\ IF gathered.commits = 0 /\ gathered.files = 0
       THEN FailDescription(NO_CHANGES, <<>>)
       ELSE /\ rpc' = "describeSelecting"
            /\ UNCHANGED <<posted, log>>
  /\ UNCHANGED <<env, done, gathered, received, cancelled>>
  /\ UNCHANGED <<diffVars, navVars, normVars>>
  /\ UNCHANGED <<configVars, promptVars, branchVars>>
  /\ UNCHANGED <<callVars, panelVars>>

\* selectChatModels in CopilotService.generatePrDescription
SelectDescriptionModel ==
  /\ rpc = "describeSelecting"
  /\ IF env.model
       THEN /\ rpc' = "describeRequesting"
            /\ UNCHANGED <<posted, log>>
       ELSE FailDescription(NO_MODEL,
              <<ErrorEntry("CopilotService", "No suitable language model found"),
                ErrorEntry("CopilotService", "Error generating PR description")>>)
  /\ UNCHANGED <<env, done, gathered, received, cancelled>>
  /\ UNCHANGED <<diffVars, navVars, normVars>>
  /\ UNCHANGED <<configVars, promptVars, branchVars>>
  /\ UNCHANGED <<callVars, panelVars>>

\* sendRequest resolves or rejects
DescriptionResponseStarts ==
  /\ rpc = "describeRequesting"
  /\ IF env.failure = "send"
       THEN FailDescription(REQUEST_FAILED,
              <<ErrorEntry("CopilotService", "Error generating PR description")>>)
       ELSE /\ rpc' = "describeStreaming"
            /\ UNCHANGED <<posted, log>>
  /\ UNCHANGED <<env, done, gathered, received, cancelled>>
  /\ UNCHANGED <<diffVars, navVars, normVars>>
  /\ UNCHANGED <<configVars, promptVars, branchVars>>
  /\ UNCHANGED <<callVars, panelVars>>

\* The stream ends or throws; the text collected is normalized and the result
\* posted (prDescriptionPanel.ts 122-126)
DescriptionStreamEnds ==
  /\ rpc = "describeStreaming"
  /\ IF env.failure = "stream"
       THEN /\ FailDescription(REQUEST_FAILED,
                 <<ErrorEntry("CopilotService", "Error generating PR description")>>)
            /\ UNCHANGED <<received, normalized>>
       ELSE /\ received' = response
            /\ normalized' = NormalizePrDescriptionText(response)
            /\ IF normalized'.kind = "return"
                 THEN /\ posted' = Append(posted, GenerationComplete(normalized'.value))
                      /\ rpc' = "settled"
                      /\ UNCHANGED log
                 ELSE FailDescription(REQUEST_FAILED,
                        <<ErrorEntry("CopilotService", "Error generating PR description")>>)
  /\ UNCHANGED <<env, done, gathered, cancelled>>
  /\ UNCHANGED <<diffVars, navVars, response, normKind>>
  /\ UNCHANGED <<configVars, promptVars, branchVars>>
  /\ UNCHANGED <<callVars, panelVars>>

NextDescribe ==
  \/ RequestDescription
  \/ \E q \in DescriptionQueryNames : DescriptionQuery(q)
  \/ CheckDescriptionChanges
  \/ SelectDescriptionModel
  \/ DescriptionResponseStarts
  \/ DescriptionStreamEnds

InitDescribe ==
  /\ env \in { e \in Envs : (~e.workspace => e.failing = {}) /\ "detailedDiff" \notin e.failing }
  /\ gen = RepoGen(env.repo)
  /\ diff = RenderDiff(gen)
  /\ result = NoResult
  /\ parsed = <<>>
  /\ enhanced = NoResult
  /\ dpc = "idle"
  /\ response \in DescriptionResponses
  /\ normKind = "prDescription"
  /\ normalized = NotNormalized
  /\ rpc = "describe"
  /\ done = {}
  /\ gathered = NothingGathered
  /\ received = <<>>
  /\ cancelled = FALSE
  /\ posted = <<>>
  /\ log = <<>>
  /\ NavIdle
  /\ ConfigIdle /\ PromptIdle /\ BranchIdle /\ CallsIdle /\ PanelIdle

InitRequests == InitReview \/ InitDescribe

NextRequests == NextReview \/ NextDescribe

\* A review request or a description request
SpecRequests == InitRequests /\ [][NextRequests]_vars

\* ------------------------------------------------------------------------
\* Analysis requests running at the same time (breakingChangesPanel.ts,
\* analyzeBreakingChanges; breakingChangeService.ts, analyzeWithCopilot;
\* copilotService.ts, reviewPrChanges)
\* ------------------------------------------------------------------------

InfoEntry(source, message) == [level |-> "INFO", source |-> source, message |-> message]

\* ConfigService.getLanguageModelFamily
getLanguageModelFamily == IF languageModel = NoFamily THEN DEFAULT_FAMILY ELSE languageModel

\* breakingChangesPanel.ts, lines 104-112: the family the message names is
\* written to the global setting
UpdateLanguageModel(r) ==
  /\ analyses[r].kind = "breakingChanges" /\ analyses[r].pc = "requested"
  /\ languageModel' =
       IF analyses[r].modelFamily # NoFamily THEN analyses[r].modelFamily ELSE languageModel
  /\ log' = Append(log, InfoEntry("BreakingChangesPanel", "Analyzing breaking changes"))
  /\ analyses' = [analyses EXCEPT ![r].pc = "gathering"]
  /\ UNCHANGED <<env, rpc, done, gathered, received, cancelled, posted>>
  /\ UNCHANGED <<diffVars, navVars, normVars>>
  /\ UNCHANGED <<promptVars, branchVars>>
  /\ UNCHANGED <<callVars, panelVars>>

\* prReviewPanel.ts, lines 99-104: the review begins with its git queries
StartReview(r) ==
  /\ analyses[r].kind = "prReview" /\ analyses[r].pc = "requested"
  /\ analyses' = [analyses EXCEPT ![r].pc = "gathering"]
  /\ UNCHANGED <<languageModel, reviewVars, diffVars, navVars, normVars>>
  /\ UNCHANGED <<promptVars, branchVars>>
  /\ UNCHANGED <<callVars, panelVars>>

\* The awaited git queries of the request have completed
GatherChanges(r) ==
  /\ analyses[r].pc = "gathering"
  /\ analyses' = [analyses EXCEPT ![r].pc = "selecting"]
  /\ UNCHANGED <<languageModel, reviewVars, diffVars, navVars, normVars>>
  /\ UNCHANGED <<promptVars, branchVars>>
  /\ UNCHANGED <<callVars, panelVars>>

\* breakingChangeService.ts, lines 347-349; copilotService.ts, lines 927-929
ReadLanguageModel(r) ==
  /\ analyses[r].pc = "selecting"
  /\ LET family ==
           IF analyses[r].kind = "prReview" /\ analyses[r].modelFamily # NoFamily
             THEN analyses[r].modelFamily
             ELSE getLanguageModelFamily
     IN  /\ analyses' = [analyses EXCEPT ![r].pc = "analysing", ![r].family = family]
         /\ log' = Append(log, InfoEntry("Using language model family", family))
  /\ UNCHANGED <<languageModel, env, rpc, done, gathered, received, cancelled, posted>>
  /\ UNCHANGED <<diffVars, navVars, normVars>>
  /\ UNCHANGED <<promptVars, branchVars>>
  /\ UNCHANGED <<callVars, panelVars>>

\* The request ends with its result or its error message
SettleAnalysis(r) ==
  /\ analyses[r].pc = "analysing"
  /\ analyses' = [analyses EXCEPT ![r].pc = "settled"]
  /\ UNCHANGED <<languageModel, reviewVars, diffVars, navVars, normVars>>
  /\ UNCHANGED <<promptVars, branchVars>>
  /\ UNCHANGED <<callVars, panelVars>>

NextConfig ==
  \E r \in Requests :
    \/ UpdateLanguageModel(r)
    \/ StartReview(r)
    \/ GatherChanges(r)
    \/ ReadLanguageModel(r)
    \/ SettleAnalysis(r)

InitConfig ==
  /\ languageModel \in Families \cup {NoFamily}
  /\ analyses \in [Requests -> { Analysis(k, m) : k \in AnalysisKinds, m \in Families \cup {NoFamily} }]
  /\ DiffIdle /\ NavIdle /\ NormIdle /\ ReviewIdle /\ PromptIdle /\ BranchIdle /\ CallsIdle /\ PanelIdle

\* Analysis requests whose handlers interleave at their awaits
SpecConfig == InitConfig /\ [][NextConfig]_vars

\* ------------------------------------------------------------------------
\* The diff of a prompt (promptService.ts, buildPrReviewPrompt)
\* ------------------------------------------------------------------------

\* Line 385: the diff is truncated when it is longer than the threshold
BuildPrompt ==
  /\ promptDiff = NoPrompt
  /\ promptDiff' = PromptDiff(FlatText(diff))
  /\ UNCHANGED <<diffVars, navVars, normVars, reviewVars, configVars, branchVars>>
  /\ UNCHANGED <<callVars, panelVars>>

NextPrompt == BuildPrompt

InitPrompt ==
  /\ gen \in TruncInputs
  /\ diff = TruncDiffLines(gen)
  /\ result = NoResult
  /\ parsed = <<>>
  /\ enhanced = NoResult
  /\ dpc = "idle"
  /\ promptDiff = NoPrompt
  /\ NavIdle /\ NormIdle /\ ReviewIdle /\ ConfigIdle /\ BranchIdle /\ CallsIdle /\ PanelIdle

SpecPrompt == InitPrompt /\ [][NextPrompt]_vars

\* ------------------------------------------------------------------------
\* The webviews' branchesList handlers (prReview.js, prDescription.js)
\* ------------------------------------------------------------------------

IsMainOrMaster(b) == b = "main" \/ b = "master"
IsMainMasterDevelop(b) == ToLowerCase(b) \in {"main", "master", "develop"}

\* prReview.js, lines 193-198
ReviewBranchesList ==
  /\ branchesList.panel = "prReview" /\ ~selected
  /\ targetBranch' =
       FindOr(branchesList.branches, IsMainOrMaster,
              IF branchesList.branches = <<>> THEN UNDEFINED ELSE branchesList.branches[1])
  /\ selected' = TRUE
  /\ UNCHANGED <<branchesList, diffVars, navVars, normVars, reviewVars, configVars, promptVars>>
  /\ UNCHANGED <<callVars, panelVars>>

\* prDescription.js, lines 41-60
DescriptionBranchesList ==
  /\ branchesList.panel = "prDescription" /\ ~selected
  /\ targetBranch' =
       IF branchesList.defaultTargetBranch # ""
          /\ \E i \in 1..Len(branchesList.branches) :
               branchesList.branches[i] = branchesList.defaultTargetBranch
         THEN branchesList.defaultTargetBranch
         ELSE FindOr(branchesList.branches, IsMainMasterDevelop, "")
  /\ selected' = TRUE
  /\ UNCHANGED <<branchesList, diffVars, navVars, normVars, reviewVars, configVars, promptVars>>
  /\ UNCHANGED <<callVars, panelVars>>

NextBranches == ReviewBranchesList \/ DescriptionBranchesList

InitBranches ==
  /\ branchesList \in { BranchesListMessage(p, bs, s) :
                          p \in Panels, bs \in BranchLists, s \in BranchSettings }
  /\ targetBranch = UNDEFINED
  /\ selected = FALSE
  /\ DiffIdle /\ NavIdle /\ NormIdle /\ ReviewIdle /\ ConfigIdle /\ PromptIdle /\ CallsIdle /\ PanelIdle

SpecBranches == InitBranches /\ [][NextBranches]_vars

\* ------------------------------------------------------------------------
\* Parse calls one after another (gitService.ts, parseGitDiffWithLineDetails)
\* ------------------------------------------------------------------------

\* A parser whose result array is a field of the service, never reset
ReparseKeepingResult ==
  /\ Len(calls) < MaxCalls
  /\ \E g \in ReparseInputs :
       /\ gen' = g
       /\ diff' = RenderDiff(g)
       /\ parsed' = parsed \o parseGitDiffWithLineDetails(RenderDiff(g))
       /\ calls' = Append(calls, [text |-> diff', parsed |-> parsed'])
  /\ UNCHANGED <<result, enhanced, dpc>>
  /\ UNCHANGED <<navVars, normVars, reviewVars, configVars, promptVars, branchVars>>
  /\ UNCHANGED panelVars

\* One more call of the parser, on any text; calls records every call made
Reparse ==
  /\ Len(calls) < MaxCalls
  /\ \E g \in ReparseInputs :
       /\ gen' = g
       /\ diff' = RenderDiff(g)
       /\ parsed' = parseGitDiffWithLineDetails(RenderDiff(g))
       /\ calls' = Append(calls, [text |-> diff', parsed |-> parsed'])
  /\ UNCHANGED <<result, enhanced, dpc>>
  /\ UNCHANGED <<navVars, normVars, reviewVars, configVars, promptVars, branchVars>>
  /\ UNCHANGED panelVars

NextReparse == Reparse

InitReparse ==
  /\ DiffIdle /\ CallsIdle /\ PanelIdle
  /\ NavIdle /\ NormIdle /\ ReviewIdle /\ ConfigIdle /\ PromptIdle /\ BranchIdle

SpecReparse == InitReparse /\ [][NextReparse]_vars

\* ------------------------------------------------------------------------
\* Review panels: creation, disposal and the reviews requested on them
\* ------------------------------------------------------------------------

\* A panel created at every call, whatever currentPanel is
CreateAlways ==
  /\ Len(panels) < MaxPanels
  /\ panels' = Append(panels, NewPanel)
  /\ currentPanel' = Len(panels) + 1
  /\ UNCHANGED reviews
  /\ UNCHANGED <<diffVars, navVars, normVars, reviewVars>>
  /\ UNCHANGED <<configVars, promptVars, branchVars, callVars>>

\* PrReviewPanel.createOrShow: the current panel is revealed, or a panel is
\* created and becomes the current one
CreateOrShow ==
  /\ IF currentPanel # NoPanel
       THEN UNCHANGED <<currentPanel, panels>>
       ELSE /\ Len(panels) < MaxPanels
            /\ panels' = Append(panels, NewPanel)
            /\ currentPanel' = Len(panels) + 1
  /\ UNCHANGED reviews
  /\ UNCHANGED <<diffVars, navVars, normVars, reviewVars>>
  /\ UNCHANGED <<configVars, promptVars, branchVars, callVars>>

\* The user closes panel p: onDidDispose runs dispose()
ClosePanel(p) ==
  /\ ~panels[p].disposed
  /\ panels' = [panels EXCEPT ![p].disposed = TRUE]
  /\ currentPanel' = NoPanel
  /\ UNCHANGED reviews
  /\ UNCHANGED <<diffVars, navVars, normVars, reviewVars>>
  /\ UNCHANGED <<configVars, promptVars, branchVars, callVars>>

\* handleReview of the App of panel p: the button is enabled while isLoading
\* is false; the result shown is cleared and 'reviewPr' is sent
ClickReview(p) ==
  /\ ~panels[p].disposed
  /\ ~panels[p].app.isLoading
  /\ Len(reviews) < MaxReviews
  /\ panels' = [panels EXCEPT ![p].app = [@ EXCEPT !.reviewResult = NoReview,
                                                  !.error = NoError]]
  /\ reviews' = Append(reviews, [panel |-> p, pc |-> "sent"])
  /\ UNCHANGED currentPanel
  /\ UNCHANGED <<diffVars, navVars, normVars, reviewVars>>
  /\ UNCHANGED <<configVars, promptVars, branchVars, callVars>>

\* The panel receives 'reviewPr' number r: reviewPr runs to its first await
\* and has posted 'startLoading'.  The listener goes with the panel.
ReceiveReviewPr(r) ==
  /\ reviews[r].pc = "sent"
  /\ IsReachable(panels[reviews[r].panel])
  /\ panels' = [panels EXCEPT ![reviews[r].panel] = PostMessage(@, StartLoading)]
  /\ reviews' = [reviews EXCEPT ![r].pc = "running"]
  /\ UNCHANGED currentPanel
  /\ UNCHANGED <<diffVars, navVars, normVars, reviewVars>>
  /\ UNCHANGED <<configVars, promptVars, branchVars, callVars>>

\* reviewPr number r comes to its end: it posts 'reviewComplete' with its
\* result, or 'error' from its catch.  On a disposed panel this._panel.webview
\* throws in the try block, in the catch and in the catch of the handler, and
\* the handler rejects.
SettleReviewPr(r) ==
  /\ reviews[r].pc = "running"
  /\ IF IsReachable(panels[reviews[r].panel])
       THEN /\ \E ok \in BOOLEAN :
                 panels' = [panels EXCEPT ![reviews[r].panel] =
                              PostMessage(@, IF ok THEN ReviewCompleteOf(r)
                                                   ELSE ErrorMessage(REVIEW_FAILED))]
            /\ reviews' = [reviews EXCEPT ![r].pc =
                             IF panels'[reviews[r].panel].app.error = NoError
                               THEN "completed" ELSE "failed"]
       ELSE /\ reviews' = [reviews EXCEPT ![r].pc = "rejected"]
            /\ UNCHANGED panels
  /\ UNCHANGED currentPanel
  /\ UNCHANGED <<diffVars, navVars, normVars, reviewVars>>
  /\ UNCHANGED <<configVars, promptVars, branchVars, callVars>>

NextPanel ==
  \/ CreateOrShow
  \/ \E p \in 1..Len(panels) : ClosePanel(p)
  \/ \E p \in 1..Len(panels) : ClickReview(p)
  \/ \E r \in 1..Len(reviews) : ReceiveReviewPr(r)
  \/ \E r \in 1..Len(reviews) : SettleReviewPr(r)

InitPanel ==
  /\ PanelIdle
  /\ DiffIdle /\ NavIdle /\ NormIdle /\ ReviewIdle
  /\ ConfigIdle /\ PromptIdle /\ BranchIdle /\ CallsIdle

\* The review panels of a session and the reviews requested on them
SpecPanel == InitPanel /\ [][NextPanel]_vars

\* ------------------------------------------------------------------------
\* Properties of the reconciler
\* ------------------------------------------------------------------------

\* The entries of a parse result whose filePath is `path`
EntriesOf(p, path) == { e \in 1..Len(p) : p[e].filePath = path }

\* The non-null new line numbers of the lines of these entries
NewNums(p, path) ==
  UNION { { p[e].hunk.lines[i].newLineNum : i \in 1..Len(p[e].hunk.lines) } :
          e \in EntriesOf(p, path) } \ {NULL}

\* C1: for an issue that has a line number and a file path with an entry in
\* the parse result, the reconciler answers exactMatch = true with
\* newLineNumber = issue.lineNumber when a line of the file's entries has that
\* new line number, and never answers exactMatch = true when none has.
C1_ExactMatch ==
  dpc = "enhanced" =>
    \A k \in 1..Len(result.issues) :
      LET issue == result.issues[k]
          lc == enhanced.issues[k].lineContext
          nums == NewNums(parsed, issue.filePath)
      IN  (issue.lineNumber # NULL /\ EntriesOf(parsed, issue.filePath) # {}) =>
            /\ issue.lineNumber \in nums =>
                 lc.present /\ lc.exactMatch /\ lc.newLineNumber = issue.lineNumber
            /\ issue.lineNumber \notin nums => ~(lc.present /\ lc.exactMatch)

\* An issue on a line of the diff, found in a parse result of several entries
C1_Witness ==
  /\ dpc = "enhanced"
  /\ Len(parsed) >= 2
  /\ \E k \in 1..Len(result.issues) :
       /\ result.issues[k].lineNumber \in NewNums(parsed, result.issues[k].filePath)
       /\ enhanced.issues[k].lineContext.exactMatch

C8_Original ==
  dpc = "enhanced" =>
    \A k \in 1..Len(result.issues) :
      LET issue == result.issues[k]
      IN  (~enhanced.issues[k].lineContext.present) <=>
            \/ EntriesOf(parsed, issue.filePath) = {}
            \/ issue.lineNumber = NULL
            \/ NewNums(parsed, issue.filePath) = {}

\* C8, amended: an issue is left without lineContext exactly when no entry has
\* its file path, or its line number is absent or 0, or no line of the matching
\* entries has a new line number; in every other case a match is returned,
\* however far the reported line is from the lines of the diff.
C8_NoContextExactlyWhen ==
  dpc = "enhanced" =>
    \A k \in 1..Len(result.issues) :
      LET issue == result.issues[k]
      IN  (~enhanced.issues[k].lineContext.present) <=>
            \/ EntriesOf(parsed, issue.filePath) = {}
            \/ issue.lineNumber = NULL
            \/ issue.lineNumber = 0
            \/ NewNums(parsed, issue.filePath) = {}

\* An issue reported far beyond every line of the diff is matched all the same
C8_Witness ==
  /\ dpc = "enhanced"
  /\ result.issues[1].lineNumber = 99
  /\ enhanced.issues[1].lineContext.present
  /\ ~enhanced.issues[1].lineContext.exactMatch
  /\ enhanced.issues[1].lineContext.newLineNumber <= 31

\* ------------------------------------------------------------------------
\* Properties of the parser
\* ------------------------------------------------------------------------

RECURSIVE AllHunks(_)
AllHunks(files) ==
  IF files = <<>> THEN <<>> ELSE files[1].hunks \o AllHunks(Tail(files))

\* A hunk body a diff tool writes: no blank raw line, at least one change, the
\* no-newline marker only after a line.
ValidBody(body) ==
  /\ \A i \in 1..Len(body) : body[i] # ""
  /\ \E i \in 1..Len(body) : body[i] \in {"+", "-"}
  /\ \A i \in 1..Len(body) : body[i] = "\\" => (i > 1 /\ body[i - 1] # "\\")

\* A valid unified diff: every file header and every hunk header is well-formed
\* (with both counts, or as git writes it) and every body is valid.
ValidDiff(files) ==
  /\ \A f \in 1..Len(files) : files[f].ok
  /\ \A h \in 1..Len(AllHunks(files)) :
       AllHunks(files)[h].form \in {"full", "git"} /\ ValidBody(AllHunks(files)[h].body)

CountNew(lines) == Cardinality({ i \in 1..Len(lines) : lines[i].newLineNum # NULL })
CountOld(lines) == Cardinality({ i \in 1..Len(lines) : lines[i].oldLineNum # NULL })

\* C3: for a valid unified diff every hunk has its parsed hunk, which holds as
\* many lines with a new line number as the header's new-line count and as
\* many lines with an old line number as its old-line count.
C3_LineAccounting ==
  (dpc # "input" /\ ValidDiff(gen)) =>
    /\ Len(parsed) = Len(AllHunks(gen))
    /\ \A k \in 1..Len(parsed) :
         k <= Len(AllHunks(gen)) =>
           /\ CountNew(parsed[k].hunk.lines) = NewCount(AllHunks(gen)[k].body)
           /\ CountOld(parsed[k].hunk.lines) = OldCount(AllHunks(gen)[k].body)

\* The header of a hunk matches '-oldStart,oldCount +newStart,newCount'
HeaderMatchesPattern(h) ==
  \/ h.form = "full"
  \/ h.form = "git" /\ OldCount(h.body) # 1 /\ NewCount(h.body) # 1

RECURSIVE KeepMatching(_)
KeepMatching(hunks) ==
  IF hunks = <<>> THEN <<>>
  ELSE (IF HeaderMatchesPattern(hunks[1]) THEN <<hunks[1]>> ELSE <<>>)
       \o KeepMatching(Tail(hunks))

\* The diff without its malformed units: the files with a malformed header and
\* the hunks with a header that does not match the pattern
RECURSIVE WithoutMalformed(_)
WithoutMalformed(files) ==
  IF files = <<>> THEN <<>>
  ELSE (IF files[1].ok
          THEN <<[files[1] EXCEPT !.hunks = KeepMatching(files[1].hunks)]>>
          ELSE <<>>)
       \o WithoutMalformed(Tail(files))

\* The hunks of the diff that are well-formed and hold a line the parser records
RecordedHunks(files) ==
  { k \in 1..Len(AllHunks(WithoutMalformed(files))) :
      \E i \in 1..Len(AllHunks(WithoutMalformed(files))[k].body) :
        AllHunks(WithoutMalformed(files))[k].body[i] \in {"+", "-", " "} }

\* C5: a file chunk without a valid header, or a hunk whose header does not
\* match the pattern, contributes no entry, and the rest of the diff is parsed
\* exactly as if the malformed unit were absent from the text.
C5_MalformedIsolated ==
  dpc # "input" =>
    /\ parsed = parseGitDiffWithLineDetails(RenderDiff(WithoutMalformed(gen)))
    /\ Len(parsed) = Cardinality(RecordedHunks(gen))

\* A malformed hunk before a well-formed one that is parsed
C5_Witness ==
  /\ dpc = "parsed"
  /\ Len(AllHunks(gen)) = 2
  /\ gen[1].ok
  /\ AllHunks(gen)[1].form = "bad"
  /\ Len(parsed) = 1
  /\ parsed[1].hunk.lines[1].content = Substring(RenderBodyLine(AllHunks(gen)[2].body[1], 1), 1)

\* ------------------------------------------------------------------------
\* Properties of the locator
\* ------------------------------------------------------------------------

Navigated == position # NavPending /\ navigate.canOpen

Clamp(n, lo, hi) == Max(lo, Min(n, hi))

\* C6: with an empty or undefined code context and a line number of 0 or more
\* the editor is positioned at column 0 of line lineNumber - 1 clamped into
\* [0, last line of the document].
C6_FallbackClamped ==
  (/\ Navigated
   /\ (~navigate.codeContext.defined \/ navigate.codeContext.text = <<>>)
   /\ navigate.lineNumber >= 0)
  => position = [kind |-> "position",
                 line |-> Clamp(navigate.lineNumber - 1, 0, LastLine(navigate.document)),
                 character |-> 0]

\* The anchor lines of a code context: the lines that are not marked added or
\* removed, without their two-space marker, blank ones left out
AnchorOf(line) ==
  IF Len(line) >= 2 /\ line[1] = " " /\ line[2] = " " THEN SubSeq(line, 3, Len(line))
  ELSE line

IsMarkedChange(line) ==
  Len(line) >= 2 /\ line[1] \in {"+", "-"} /\ line[2] = " "

AnchorsOf(text) ==
  LET kept == SelectSeq(SplitLines(text), LAMBDA l : ~IsMarkedChange(l))
      stripped == [i \in 1..Len(kept) |-> AnchorOf(kept[i])]
  IN  SelectSeq(stripped, LAMBDA l : \E i \in 1..Len(l) : ~IsSpaceChar(l[i]))

FirstAnchorsJoined(text) ==
  LET anchors == AnchorsOf(text)
  IN  JoinLines(SubSeq(anchors, 1, Min(3, Len(anchors))))

OccursAt(text, sub, i) ==
  i + Len(sub) - 1 <= Len(text) /\ SubSeq(text, i, i + Len(sub) - 1) = sub

Occurs(text, sub) == \E i \in 1..Len(text) : OccursAt(text, sub, i)

FirstOccurrence(text, sub) ==
  CHOOSE i \in 1..Len(text) :
    OccursAt(text, sub, i) /\ \A j \in 1..(i - 1) : ~OccursAt(text, sub, j)

\* The 0-based line on which the character at position i stands
LineOfOffset(text, i) == Cardinality({ j \in 1..(i - 1) : text[j] = "\n" })

MatchLine ==
  LineOfOffset(navigate.document,
    FirstOccurrence(navigate.document, FirstAnchorsJoined(navigate.codeContext.text)))

ContextMatches ==
  /\ navigate.codeContext.defined
  /\ Len(AnchorsOf(navigate.codeContext.text)) >= 2
  /\ Occurs(navigate.document, FirstAnchorsJoined(navigate.codeContext.text))

\* C7: when the code context has at least two anchors and the document
\* contains the first (up to three) anchors joined by newlines, the editor
\* is positioned at column 0 of the line on which the first occurrence
\* starts, whatever lineNumber is.
C7_ContextMatchWins ==
  (Navigated /\ ContextMatches)
  => position = [kind |-> "position", line |-> MatchLine, character |-> 0]

\* A match below the first line, found through a context that holds a changed
\* line, with a lineNumber that points to another line
C7_Witness ==
  /\ Navigated /\ ContextMatches
  /\ MatchLine >= 1
  /\ navigate.lineNumber - 1 # MatchLine
  /\ \E i \in 1..Len(SplitLines(navigate.codeContext.text)) :
       IsMarkedChange(SplitLines(navigate.codeContext.text)[i])
  /\ position.kind = "position" /\ position.line = MatchLine

\* ------------------------------------------------------------------------
\* Properties of the normalizers
\* ------------------------------------------------------------------------

PrDescriptionShape(v) ==
  /\ v.type = "object"
  /\ GetField(v, "title").type = "string"
  /\ GetField(v, "description").type = "string"

PrReviewShape(v) ==
  /\ v.type = "object"
  /\ GetField(v, "summary").type = "object"
  /\ GetField(GetField(v, "summary"), "assessment").type = "string"
  /\ \A f \in {"strengths", "criticalIssues", "recommendations"} :
       GetField(GetField(v, "summary"), f).type = "array"
  /\ GetField(v, "issues").type = "array"

BreakingChangesShape(v) ==
  /\ v.type = "object"
  /\ GetField(v, "breakingChanges").type = "array"
  /\ GetField(v, "summary").type = "object"

TargetShape(kind, v) ==
  CASE kind = "prDescription" -> PrDescriptionShape(v)
    [] kind = "prReview" -> PrReviewShape(v)
    [] OTHER -> BreakingChangesShape(v)

\* C4: whatever the response text, each of the three normalizers returns an
\* object of its target shape and does not throw.
C4_NormalizersTotal ==
  normalized # NotNormalized
  => normalized.kind = "return" /\ TargetShape(normKind, normalized.value)

\* ------------------------------------------------------------------------
\* Properties of the review request
\* ------------------------------------------------------------------------

ErrorPosted == \E i \in 1..Len(posted) : posted[i].command = "error"

ParserErrorPresented ==
  \E i \in 1..Len(posted) :
    /\ posted[i].command = "reviewComplete"
    /\ GetField(posted[i].summary, "assessment") = JStr(PARSE_ERROR_ASSESSMENT)

\* C9: a request cancelled while it is with the model ends without an 'error'
\* message and without a parser-error result.
C9_CancellationOutcome ==
  (rpc = "settled" /\ cancelled) => ~ErrorPosted /\ ~ParserErrorPresented

\* A git query failed, no workspace folder is open, or no model was found
\* when one was selected
BoundaryFailure ==
  \/ ~env.workspace
  \/ \E q \in done : q \in env.failing
  \/ (~env.model /\ (gathered.commits > 0 \/ gathered.files > 0))

ErrorLogged == \E i \in 1..Len(log) : log[i].level = "ERROR"

\* C10: a request in which a git query failed, the workspace folder was
\* missing or no model was found ends with an error message and a log entry.
C10_FailuresSurface ==
  (rpc = "settled" /\ BoundaryFailure) => ErrorPosted /\ ErrorLogged


\* ------------------------------------------------------------------------
\* The order of the steps of a review request
\* ------------------------------------------------------------------------

ReviewPresented == \E i \in 1..Len(posted) : posted[i].command = "reviewComplete"

\* The model has been invoked: sendRequest was called or is about to be
ModelInvoked == rpc \in {"requesting", "streaming", "received", "normalized", "reconciled"}

StepOrder ==
  \* a query completes, and the diff is parsed, only before the model is invoked
  /\ (done' # done \/ parsed' # parsed) =>
       rpc = "gathering" /\ received = <<>> /\ normalized = NotNormalized
  \* the model is invoked after all four queries, the parse among them
  /\ ModelInvoked' => done = QueryNames /\ parsed' = parsed
  /\ received' # received => done = QueryNames /\ normalized = NotNormalized
  \* the response is normalized once the stream has ended, before reconciling
  /\ (normalized' # normalized \/ result' # result) =>
       rpc = "received" /\ enhanced = NoResult /\ ~ReviewPresented
  \* issues are reconciled after normalizing, against the parsed diff
  /\ (rpc' = "reconciled" /\ rpc # "reconciled") =>
       /\ rpc = "normalized" /\ normalized.kind = "return"
       /\ enhanced' = enhanceReviewResults(result, parsed)
       /\ ~ReviewPresented
  /\ enhanced' # enhanced => rpc = "normalized"
  \* the result is presented after reconciling, and is the reconciled result
  /\ (ReviewPresented' /\ ~ReviewPresented) =>
       /\ rpc = "reconciled"
       /\ posted'[Len(posted')].issues = enhanced.issues
       /\ UNCHANGED <<done, parsed, received, normalized, result, enhanced>>

\* C11: within one review request all git queries, the diff parse among
\* them, complete before the model is invoked; the response is received to the
\* end of its stream and normalized before the issues are reconciled with the
\* parsed diff; and the result is posted to the webview only after that.
C11_StepOrder == [][StepOrder]_vars

\* A review presented with an issue the reconciler has matched to the diff
C11_Witness ==
  /\ rpc = "settled"
  /\ done = QueryNames
  /\ ReviewPresented
  /\ Len(posted[Len(posted)].issues) = 1
  /\ posted[Len(posted)].issues[1].lineContext.present

\* ------------------------------------------------------------------------
\* Properties of concurrent analysis requests
\* ------------------------------------------------------------------------

InFlight(r) == analyses[r].pc \notin {"requested", "settled"}

\* The family a request asks for: the one its message names, else the setting
RequestedFamily(r) ==
  IF analyses[r].modelFamily # NoFamily THEN analyses[r].modelFamily ELSE getLanguageModelFamily

StepKeepsConfig ==
  /\ languageModel' = languageModel
  /\ \A r \in Requests :
       analyses'[r].family # analyses[r].family => analyses'[r].family = RequestedFamily(r)
  /\ Len(log') >= Len(log) /\ SubSeq(log', 1, Len(log)) = log

\* C12: no step of an analysis request writes the configuration; the model
\* family a request is analysed with is the one it asked for, whatever other
\* requests run at the same time; and the log only grows.
C12_ConfigReadOnly == [][StepKeepsConfig]_vars

\* ------------------------------------------------------------------------
\* Properties of the truncation
\* ------------------------------------------------------------------------

DropLast(text) == SubSeq(text, 1, Len(text) - 1)

\* A file section cut before its hunk k + 1, with the marker in its place
CutAfterHunk(f, k) ==
  DropLast(FlatText(RenderFileHeader(f) \o TruncHunksLines(SubSeq(f.hunks, 1, k))))
  \o TRUNCATED_MARK

\* What a file section may become: itself, or its first hunks and the marker
CutsAtHunkBoundary(f) ==
  {FlatText(TruncFileLines(f))} \cup { CutAfterHunk(f, k) : k \in 0..(Len(f.hunks) - 1) }

RECURSIVE CutsOfFiles(_)
CutsOfFiles(files) ==
  IF files = <<>> THEN {<<>>}
  ELSE { a \o b : a \in CutsAtHunkBoundary(files[1]), b \in CutsOfFiles(Tail(files)) }

\* The text before the first file section, as it is or behind a section mark
StatHeads == { FlatText(StatLines), DIFF_GIT_MARK \o FlatText(StatLines) }

\* C13: when the diff is longer than the threshold, the text placed in the
\* prompt is the diff with each file section either whole or cut at the start
\* of one of its hunks: the hunks before the cut are kept in order, and the
\* truncation marker stands where the cut was made.
C13_TruncationAtHunkBoundary ==
  (promptDiff # NoPrompt /\ Len(FlatText(diff)) > MAX_CONTEXT_LENGTH) =>
    \E head \in StatHeads : \E files \in CutsOfFiles(gen) : promptDiff = head \o files

\* ------------------------------------------------------------------------
\* Properties of the branch selection
\* ------------------------------------------------------------------------

HasBranch(name) == \E i \in 1..Len(branchesList.branches) : branchesList.branches[i] = name

\* C14: a panel that has received the branch list pre-selects the configured
\* defaultTargetBranch whenever the setting is non-empty and names a branch of
\* the list; 'main' or 'master' is a fallback for the other case only.
C14_DefaultTargetBranch ==
  (selected /\ branchesList.defaultTargetBranch # ""
            /\ HasBranch(branchesList.defaultTargetBranch))
  => targetBranch = branchesList.defaultTargetBranch

\* ------------------------------------------------------------------------
\* Properties of repeated parses
\* ------------------------------------------------------------------------

HasRecordedLine(h) == \E i \in 1..Len(h.body) : h.body[i] \in {"+", "-", " "}

\* The hunks of the diff the parser records, in the order of the text: entry k
\* of the parse result is made from hunk k of this sequence
RecordedHunkSeq(files) == SelectSeq(AllHunks(WithoutMalformed(files)), HasRecordedLine)

IsChangeOrContext(kind) == kind \in {"+", "-", " "}

\* How many of the first n lines carry a new (an old) line number
NewBefore(lines, n) == Cardinality({ j \in 1..n : lines[j].newLineNum # NULL })
OldBefore(lines, n) == Cardinality({ j \in 1..n : lines[j].oldLineNum # NULL })

TypeOfKind(kind) ==
  IF kind = "+" THEN "added" ELSE IF kind = "-" THEN "removed" ELSE "context"

\* C16: in every parsed hunk the counters start at the header's oldStart and
\* newStart; an added line has the current new number and no old number, a
\* removed line the current old number and no new number, a context line
\* both; a counter grows by one with each line that uses it, so the numbers
\* of either side are consecutive; and a blank raw line records nothing and
\* advances neither counter.
C16_LineNumbering ==
  dpc # "input" =>
    \A k \in 1..Len(parsed) :
      LET h == RecordedHunkSeq(gen)[k]
          hunk == parsed[k].hunk
          lines == hunk.lines
          raw == SelectSeq(h.body, IsChangeOrContext)
      IN  /\ hunk.oldStart = h.oldStart /\ hunk.newStart = h.newStart
          /\ \A i \in 1..Len(lines) :
               /\ lines[i].type \in {"added", "removed", "context"}
               /\ lines[i].type = "added" => lines[i].oldLineNum = NULL
               /\ lines[i].type = "removed" => lines[i].newLineNum = NULL
               /\ lines[i].type # "removed" =>
                    lines[i].newLineNum = hunk.newStart + NewBefore(lines, i - 1)
               /\ lines[i].type # "added" =>
                    lines[i].oldLineNum = hunk.oldStart + OldBefore(lines, i - 1)
          /\ (\A i \in 1..Len(h.body) : h.body[i] # "\\") =>
               /\ Len(lines) = Len(raw)
               /\ \A i \in 1..Len(lines) : lines[i].type = TypeOfKind(raw[i])

\* A hunk at old line 10 and new line 12 with a blank raw line between a
\* context line and an added line
C16_Witness ==
  /\ dpc # "input"
  /\ Len(parsed) = 1
  /\ gen[1].hunks[1].body = <<" ", "", "+">>
  /\ parsed[1].hunk.lines[1].oldLineNum = 10
  /\ parsed[1].hunk.lines[1].newLineNum = 12
  /\ parsed[1].hunk.lines[2].oldLineNum = NULL
  /\ parsed[1].hunk.lines[2].newLineNum = 13

\* ------------------------------------------------------------------------
\* Lines that start with neither '+' nor '-'
\* ------------------------------------------------------------------------

\* A diff of one well-formed file with one hunk whose header is complete
OneHunk == Len(gen) = 1 /\ gen[1].ok /\ Len(gen[1].hunks) = 1 /\ gen[1].hunks[1].form = "full"

NonBlank(kind) == kind # ""
IsOnOldSide(kind) == kind # "+"
IsOnNewSide(kind) == kind # "-"

\* The lines of the one parsed hunk; none when nothing was recorded
OneHunkLines == IF parsed = <<>> THEN <<>> ELSE parsed[1].hunk.lines

\* Line i of counted is a recorded context line numbered by the lines of
\* counted before it
RecordedAsContext(counted, i) ==
  /\ Len(OneHunkLines) >= i
  /\ OneHunkLines[i].type = "context"
  /\ OneHunkLines[i].oldLineNum =
       gen[1].hunks[1].oldStart + Len(SelectSeq(SubSeq(counted, 1, i - 1), IsOnOldSide))
  /\ OneHunkLines[i].newLineNum =
       gen[1].hunks[1].newStart + Len(SelectSeq(SubSeq(counted, 1, i - 1), IsOnNewSide))

\* C17, as claimed: every non-blank body line whose first character is
\* neither '+' nor '-', a space or a backslash alike, is recorded as a context
\* line and advances both counters.
C17_Original ==
  (dpc # "input" /\ OneHunk) =>
    LET counted == SelectSeq(gen[1].hunks[1].body, NonBlank)
    IN  /\ Len(OneHunkLines) = Len(counted)
        /\ \A i \in 1..Len(counted) :
             counted[i] \notin {"+", "-"} => RecordedAsContext(counted, i)

\* C17, amended: a body line whose first character is a space is recorded as
\* a context line and advances both counters; a non-blank line with any other
\* first character than '+', '-' and space, such as the backslash of
\* '\ No newline at end of file', is not recorded and advances neither.
C17_OnlySpaceIsContext ==
  (dpc # "input" /\ OneHunk) =>
    LET counted == SelectSeq(gen[1].hunks[1].body, IsChangeOrContext)
    IN  /\ Len(OneHunkLines) = Len(counted)
        /\ \A i \in 1..Len(counted) :
             counted[i] = " " => RecordedAsContext(counted, i)

\* A context line, a backslash line and an added line: two lines recorded, the
\* added line numbered right after the context line
C17_Witness ==
  /\ dpc # "input" /\ OneHunk
  /\ gen[1].hunks[1].body = <<" ", "\\", "+">>
  /\ Len(OneHunkLines) = 2
  /\ OneHunkLines[1].type = "context"
  /\ OneHunkLines[2].type = "added"
  /\ OneHunkLines[2].newLineNum = gen[1].hunks[1].newStart + 1

\* ------------------------------------------------------------------------
\* Candidates at the same distance
\* ------------------------------------------------------------------------

HasNewNumber(line) == Truthy(line.newLineNum)

\* The candidate lines of a file in scan order: entry by entry of the parse
\* result, and within an entry line by line
RECURSIVE CandidatesFrom(_, _, _)
CandidatesFrom(p, path, e) ==
  IF e > Len(p) THEN <<>>
  ELSE (IF p[e].filePath = path THEN SelectSeq(p[e].hunk.lines, HasNewNumber) ELSE <<>>)
       \o CandidatesFrom(p, path, e + 1)

DistanceTo(line, n) == Abs(line.newLineNum - n)

\* The first candidate in scan order among those at the minimum distance
FirstNearest(cands, n) ==
  LET nearest == { i \in 1..Len(cands) :
                     \A j \in 1..Len(cands) : DistanceTo(cands[i], n) <= DistanceTo(cands[j], n) }
  IN  cands[CHOOSE i \in nearest : \A j \in nearest : i <= j]

Tied(cands, n) ==
  \E i, j \in 1..Len(cands) :
    /\ i # j
    /\ DistanceTo(cands[i], n) = DistanceTo(cands[j], n)
    /\ \A k \in 1..Len(cands) : DistanceTo(cands[i], n) <= DistanceTo(cands[k], n)

\* C18: when several candidate lines are at the same minimum distance from
\* issue.lineNumber, the line returned is the one met first in scan order.
C18_FirstSeenWins ==
  dpc = "enhanced" =>
    \A k \in 1..Len(result.issues) :
      LET issue == result.issues[k]
          lc == enhanced.issues[k].lineContext
          cands == CandidatesFrom(parsed, issue.filePath, 1)
      IN  (Truthy(issue.lineNumber) /\ Tied(cands, issue.lineNumber)) =>
            /\ lc.present
            /\ lc.newLineNumber = FirstNearest(cands, issue.lineNumber).newLineNum
            /\ findClosestMatchingContext(FilterByPath(parsed, issue.filePath), issue).oldLineNumber
                 = FirstNearest(cands, issue.lineNumber).oldLineNum

\* Lines 10 and 20 of two entries, the issue at line 15: line 10 is returned
C18_Witness ==
  /\ dpc = "enhanced"
  /\ result.issues[1].lineNumber = 15
  /\ Len(parsed) >= 2
  /\ NewNums(parsed, result.issues[1].filePath) = {10, 20}
  /\ Tied(CandidatesFrom(parsed, result.issues[1].filePath, 1), 15)
  /\ enhanced.issues[1].lineContext.newLineNumber = 10

\* ------------------------------------------------------------------------
\* Properties of the PR description normalizer
\* ------------------------------------------------------------------------

\* The response holds a valid JSON object with a title and a description
HoldsValidPrDescription ==
  \E i \in 1..Len(response) :
    i + Len(ValidPrDescription) - 1 <= Len(response)
    /\ SubSeq(response, i, i + Len(ValidPrDescription) - 1) = ValidPrDescription

\* The title and the description of that object, trimmed
ObjectTitleDescription ==
  JObj([k \in {"title", "description"} |->
          IF k = "title" THEN JStr(Trim(FieldValue("title").text))
          ELSE JStr(Trim(FieldValue("description").text))])

\* C19: when the response holds a valid JSON object with a non-empty title
\* and description, with or without text around it, generatePrDescription
\* returns the trimmed title and description of that object.
C19_ValidObjectReturned ==
  (normKind = "prDescription" /\ normalized # NotNormalized /\ HoldsValidPrDescription)
  => normalized = Returned(ObjectTitleDescription)

\* ------------------------------------------------------------------------
\* Arrays of the normalized results
\* ------------------------------------------------------------------------

ReviewArrays(v) ==
  /\ IsArray(GetField(v, "issues"))
  /\ \A f \in {"strengths", "criticalIssues", "recommendations"} :
       IsArray(GetField(GetField(v, "summary"), f))

\* C20: every PR review result the normalizer returns has summary.strengths,
\* summary.criticalIssues, summary.recommendations and issues as arrays, and
\* every breaking-change result organizeResults returns has breakingChanges as
\* an array, whether the response omitted the field or gave it another value.
C20_ArraysPresent ==
  normalized.kind = "return" =>
    /\ normKind = "prReview" => ReviewArrays(normalized.value)
    /\ normKind = "breakingChanges" => IsArray(GetField(normalized.value, "breakingChanges"))

\* A review accepted with a text for strengths and no criticalIssues: both
\* are empty arrays in the result
C20_Witness ==
  /\ normKind = "prReview"
  /\ response = <<PROSE>> \o ReviewNonArray
  /\ normalized.kind = "return"
  /\ GetField(GetField(normalized.value, "summary"), "assessment") = FieldValue("assessment")
  /\ GetField(GetField(normalized.value, "summary"), "strengths") = JArr(<<>>)
  /\ GetField(GetField(normalized.value, "summary"), "criticalIssues") = JArr(<<>>)

\* ------------------------------------------------------------------------
\* The code snippet of a reconciled issue
\* ------------------------------------------------------------------------

MarkerOf(type) ==
  CASE type = "added" -> "+"
    [] type = "removed" -> "-"
    [] OTHER -> " "

\* The window of a hunk around its line i: three lines before, three after,
\* each line with its marker and a space before its content, joined by newlines
WindowText(lines, i) ==
  LET from == IF i - 3 < 1 THEN 1 ELSE i - 3
      to == IF i + 3 > Len(lines) THEN Len(lines) ELSE i + 3
  IN  JoinLines([j \in 1..(to - from + 1) |->
                   <<MarkerOf(lines[from + j - 1].type), " ">> \o lines[from + j - 1].content])

\* The snippet of an issue is the window of some hunk of its file around a
\* line of that hunk with the matched new line number
SnippetIsWindow(issue) ==
  \E k \in 1..Len(parsed) :
    /\ parsed[k].filePath = issue.filePath
    /\ \E i \in 1..Len(parsed[k].hunk.lines) :
         /\ parsed[k].hunk.lines[i].newLineNum = issue.lineContext.newLineNumber
         /\ issue.lineContext.codeSnippet = WindowText(parsed[k].hunk.lines, i)

\* C21: the codeSnippet of a reconciled issue is the matched line with up to 3
\* hunk lines before it and up to 3 after it, from the hunk of the matched
\* line and in hunk order, each line with its marker ('+', '-' or ' ') before
\* it, joined by newlines; the matched line is part of the snippet.
C21_SnippetWindow ==
  dpc = "enhanced" =>
    \A n \in 1..Len(enhanced.issues) :
      enhanced.issues[n].lineContext.present => SnippetIsWindow(enhanced.issues[n])

\* The issue at line 15 of the nine-line hunk: the snippet is lines 2 to 8 of
\* the hunk, cut on both sides
C21_Witness ==
  /\ dpc = "enhanced"
  /\ Len(parsed) = 1
  /\ Len(parsed[1].hunk.lines) = 9
  /\ enhanced.issues[1].lineContext.present
  /\ enhanced.issues[1].lineContext.newLineNumber = 15
  /\ Len(SplitLines(enhanced.issues[1].lineContext.codeSnippet)) = 7
  /\ enhanced.issues[1].lineContext.codeSnippet = WindowText(parsed[1].hunk.lines, 5)

\* ------------------------------------------------------------------------
\* The search pattern of an opened issue
\* ------------------------------------------------------------------------

\* The issue has been opened in a file that opens, and navigateToFile has run
Opened ==
  /\ dpc = "enhanced"
  /\ navigate.canOpen
  /\ navigate # NavRequest(<<>>, FALSE, 0, NoCodeContext)
  /\ position # NavPending

WindowLines(lines, i) ==
  LET from == IF i - 3 < 1 THEN 1 ELSE i - 3
      to == IF i + 3 > Len(lines) THEN Len(lines) ELSE i + 3
  IN  [j \in 1..(to - from + 1) |-> lines[from + j - 1]]

HasInk(text) == \E i \in 1..Len(text) : ~IsSpaceChar(text[i])

\* The contents of the non-blank context lines of a window, in order
WindowAnchors(lines, i) ==
  LET kept == SelectSeq(WindowLines(lines, i),
                        LAMBDA l : l.type = "context" /\ HasInk(l.content))
  IN  [j \in 1..Len(kept) |-> kept[j].content]

FirstThreeJoined(anchors) ==
  JoinLines(SubSeq(anchors, 1, IF Len(anchors) > 3 THEN 3 ELSE Len(anchors)))

\* The windows the snippet of the opened issue renders
MatchedWindows ==
  { w \in UNION { { <<k, i>> : i \in 1..Len(parsed[k].hunk.lines) } : k \in 1..Len(parsed) } :
      /\ parsed[w[1]].filePath = enhanced.issues[1].filePath
      /\ parsed[w[1]].hunk.lines[w[2]].newLineNum = enhanced.issues[1].lineContext.newLineNumber
      /\ navigate.codeContext.text = WindowText(parsed[w[1]].hunk.lines, w[2]) }

\* C22: the pattern navigateToFile searches for is the first up to 3 anchors
\* joined by newlines, the anchors being the non-blank lines of the snippet
\* that are not marked added or removed, in order, without their two-space
\* marker; for a snippet of formatCodeSnippet the anchors are the contents of
\* the non-blank context lines of the matched window, so that no added or
\* removed line is part of the pattern.
C22_PatternFromAnchors ==
  (Opened /\ navigate.codeContext.defined) =>
    /\ MatchedWindows # {}
    /\ search.attempted => search.pattern = FirstAnchorsJoined(navigate.codeContext.text)
    /\ \A w \in MatchedWindows :
         LET anchors == WindowAnchors(parsed[w[1]].hunk.lines, w[2])
         IN  /\ search.attempted <=> Len(anchors) >= 2
             /\ search.attempted => search.pattern = FirstThreeJoined(anchors)

\* The issue at line 15 of the six-line hunk: its window holds an added line,
\* a blank context line and four other context lines, and the pattern is the
\* first three of these
C22_Witness ==
  /\ Opened /\ navigate.codeContext.defined
  /\ gen[1].hunks[1].body = AnchoredBody
  /\ enhanced.issues[1].lineContext.newLineNumber = 15
  /\ search.attempted
  /\ search.pattern = JoinLines(<<<<"c", "1">>, <<"c", "3">>, <<"c", "5">>>>)

\* ------------------------------------------------------------------------
\* A snippet with fewer than two anchors
\* ------------------------------------------------------------------------

FewAnchors ==
  /\ navigate.codeContext.defined
  /\ Len(AnchorsOf(navigate.codeContext.text)) < 2

\* C23: when fewer than 2 context lines are left of the snippet, navigateToFile
\* makes no content search and the position is the one the fallback line
\* number gives, as for a request without a snippet, even when the one line
\* left occurs in the document.
C23_FewAnchorsFallBack ==
  (Navigated /\ FewAnchors) =>
    /\ ~search.attempted
    /\ position = navigateToFile(TRUE, navigate.document, navigate.lineNumber, NoCodeContext)
    /\ navigate.lineNumber >= 1 =>
         position = [kind |-> "position",
                     line |-> Clamp(navigate.lineNumber - 1, 0, LastLine(navigate.document)),
                     character |-> 0]

\* One anchor that stands on the second line of the document, with a line
\* number that points to the first: the editor goes to the first line
C23_Witness ==
  /\ Navigated /\ FewAnchors
  /\ Len(AnchorsOf(navigate.codeContext.text)) = 1
  /\ Occurs(navigate.document, AnchorsOf(navigate.codeContext.text)[1])
  /\ LineOfOffset(navigate.document,
       FirstOccurrence(navigate.document, AnchorsOf(navigate.codeContext.text)[1])) = 1
  /\ navigate.lineNumber = 1
  /\ position = [kind |-> "position", line |-> 0, character |-> 0]

\* ------------------------------------------------------------------------
\* The context lists of an entry
\* ------------------------------------------------------------------------

ChangeIndices(lines) == { i \in 1..Len(lines) : lines[i].type # "context" }

LeastOf(S) == CHOOSE i \in S : \A j \in S : i <= j
GreatestOf(S) == CHOOSE i \in S : \A j \in S : j <= i

\* The contents of lines from..to of a hunk, all of them context lines
ContextRun(lines, from, to) ==
  [j \in 1..(to - from + 1) |-> lines[from + j - 1].content]

IsContextRun(lines, from, to) == \A i \in from..to : lines[i].type = "context"

\* The at most 3 lines before the first change, and after the last one
ContextAround(e) ==
  LET lines == e.hunk.lines
      changes == ChangeIndices(lines)
      first == LeastOf(changes)
      last == GreatestOf(changes)
      from == IF first - 3 < 1 THEN 1 ELSE first - 3
      to == IF last + 3 > Len(lines) THEN Len(lines) ELSE last + 3
  IN  IF changes = {} THEN e.contextBefore = <<>> /\ e.contextAfter = <<>>
      ELSE /\ IsContextRun(lines, from, first - 1)
           /\ e.contextBefore = ContextRun(lines, from, first - 1)
           /\ IsContextRun(lines, last + 1, to)
           /\ e.contextAfter = ContextRun(lines, last + 1, to)

\* C24: for every entry of the parse, contextBefore is the at most 3 context
\* lines immediately before the first non-context line of the hunk and
\* contextAfter the at most 3 context lines immediately after its last
\* non-context line, each in hunk order.
C24_ContextAroundChanges ==
  dpc # "input" => \A k \in 1..Len(parsed) : ContextAround(parsed[k])

\* A hunk with four context lines before its change and four after it: three
\* are kept on each side
C24_Witness ==
  /\ dpc # "input"
  /\ Len(parsed) = 1
  /\ Len(parsed[1].hunk.lines) = 9
  /\ ChangeIndices(parsed[1].hunk.lines) = {5}
  /\ parsed[1].contextBefore = ContextRun(parsed[1].hunk.lines, 2, 4)
  /\ parsed[1].contextAfter = ContextRun(parsed[1].hunk.lines, 6, 8)

\* ------------------------------------------------------------------------
\* The frame of the reconciliation
\* ------------------------------------------------------------------------

WithoutLineContext(issue) == [issue EXCEPT !.lineContext = NoContext]

\* A step in which enhanceReviewResults runs: its arguments are as before,
\* and what it returns has the issues of the result, in order, each with its
\* fields and at most a lineContext more
EnhanceKeepsInputs ==
  (dpc = "parsed" /\ dpc' = "enhanced") =>
    /\ result' = result
    /\ parsed' = parsed
    /\ Len(enhanced'.issues) = Len(result.issues)
    /\ \A k \in 1..Len(result.issues) :
         /\ WithoutLineContext(enhanced'.issues[k]) = result.issues[k]
         /\ enhanced'.issues[k].lineContext.present =>
              findClosestMatchingContext(
                FilterByPath(parsed, result.issues[k].filePath), result.issues[k]).found

\* C25: reconciliation leaves its inputs unchanged: after enhanceReviewResults
\* the result passed in and the parsed diff are as before the call, and the
\* result returned has the same issues in the same order with their original
\* fields, lineContext on the matched issues being the only addition.
C25_ReconcileFrame == [][EnhanceKeepsInputs]_vars

\* An issue that was matched: the returned issue carries a lineContext, the
\* issue passed in does not
C25_Witness ==
  /\ dpc = "enhanced"
  /\ parsed # <<>>
  /\ enhanced.issues[1].lineContext.present
  /\ ~result.issues[1].lineContext.present
  /\ WithoutLineContext(enhanced.issues[1]) = result.issues[1]

\* ------------------------------------------------------------------------
\* The messages of a review request
\* ------------------------------------------------------------------------

IsTerminal(m) == m.command \in {"reviewComplete", "error"}

\* C26: a reviewPr request posts 'startLoading' first and after it exactly one
\* terminal message, 'reviewComplete' or 'error'; once the request has
\* settled the loading state of the webview is false.
C26_OneTerminalMessage ==
  /\ rpc = "requested" => posted = <<>>
  /\ rpc \notin {"none", "requested", "settled"} =>
       posted = <<StartLoading>> /\ WebviewLoading(posted)
  /\ rpc = "settled" =>
       /\ Len(posted) = 2
       /\ posted[1] = StartLoading
       /\ IsTerminal(posted[2])
       /\ ~WebviewLoading(posted)

\* A request whose response stream throws after fragments have arrived: one
\* 'error' after 'startLoading', and the webview is not loading
C26_Witness ==
  /\ rpc = "settled"
  /\ received # <<>>
  /\ normalized = NotNormalized
  /\ posted = <<StartLoading, ErrorMessage(REQUEST_FAILED)>>
  /\ ~WebviewLoading(posted)

\* ------------------------------------------------------------------------
\* Requests without changes
\* ------------------------------------------------------------------------

\* The request is with the language model: from selectChatModels on
WithModel ==
  rpc \in {"selecting", "requesting", "streaming", "received", "normalized", "reconciled",
           "describeSelecting", "describeRequesting", "describeStreaming"}

NothingChanged == gathered.commits = 0 /\ gathered.files = 0

GatheringDone ==
  \/ normKind = "prReview" /\ done = QueryNames
  \/ normKind = "prDescription" /\ done = DescriptionQueryNames

\* C27: the language model is never invoked for a PR review or a PR
\* description request whose commit list and changed-file list are both
\* empty; the request ends with an error message to the webview.
C27_NoChangesNoModel ==
  /\ WithModel => ~NothingChanged
  /\ (GatheringDone /\ NothingChanged) =>
       /\ received = <<>>
       /\ normalized = NotNormalized
       /\ rpc = "settled" => posted = <<StartLoading, ErrorMessage(NO_CHANGES)>>

\* A description request between two branches at the same commit, every
\* query answered: it ends with the error and nothing was asked of the model
C27_Witness ==
  /\ normKind = "prDescription"
  /\ env.workspace /\ env.failing = {} /\ env.model /\ env.repo = "same"
  /\ done = DescriptionQueryNames
  /\ NothingChanged
  /\ rpc = "settled"
  /\ posted = <<StartLoading, ErrorMessage(NO_CHANGES)>>
  /\ received = <<>>

\* ------------------------------------------------------------------------
\* Reviews requested on one panel
\* ------------------------------------------------------------------------

\* Two or more reviews were requested, all on one panel that still exists,
\* and each has posted its terminal message
AllSettledOnOnePanel ==
  /\ Len(reviews) >= 2
  /\ ~panels[reviews[1].panel].disposed
  /\ \A r \in 1..Len(reviews) :
       reviews[r].panel = reviews[1].panel /\ reviews[r].pc \in {"completed", "failed"}

\* C28: when several reviews were requested on a panel, the result shown once
\* all of them have settled is that of the review requested last.
C28_LatestResultShown ==
  AllSettledOnOnePanel =>
    LET app == panels[reviews[1].panel].app
        last == Len(reviews)
    IN  IF reviews[last].pc = "completed"
          THEN app.reviewResult = last /\ app.error = NoError
          ELSE app.reviewResult = NoReview /\ app.error # NoError

\* ------------------------------------------------------------------------
\* Disposed panels
\* ------------------------------------------------------------------------

\* No step adds a message to the webview of a panel that is disposed
DisposedPanelsQuiet ==
  \A p \in 1..Len(panels) :
    panels[p].disposed => panels'[p].posted = panels[p].posted /\ panels'[p].app = panels[p].app

LivePanels == {p \in 1..Len(panels) : ~panels[p].disposed}

\* C30: after any sequence of createOrShow and dispose at most one PR review
\* panel exists, and currentPanel is that panel, or undefined when there is
\* none: createOrShow creates a panel only when currentPanel is undefined,
\* and dispose resets currentPanel so that a later createOrShow creates a
\* fresh panel.
C30_AtMostOnePanel ==
  /\ Cardinality(LivePanels) <= 1
  /\ LivePanels = IF currentPanel = NoPanel THEN {} ELSE {currentPanel}

\* A first panel was disposed and a later createOrShow created a fresh one,
\* which is the current panel
C30_Witness ==
  /\ Len(panels) = 2
  /\ panels[1].disposed
  /\ ~panels[2].disposed
  /\ currentPanel = 2

====
